---- MODULE Spec2Model ----
(***************************************************************************)
(* A model of the Menhir toolchain: the indentation-sensitive Lexer        *)
(* (src/src/compiler/lexer.js), the SemanticAnalyzer and the Interpreter   *)
(* (both in src/debug_lexer.js), over the AST shapes that Parser           *)
(* (src/src/compiler/parser.js) builds.                                    *)
(***************************************************************************)
EXTENDS Integers, Sequences, FiniteSets, TLC

VARIABLES
    \* Lexer object (lexer.js:4-13) and the array tokenize() fills
    source, pos, line, column, indentStack, tokenQueue, parenLevel,
    tokens, lexState,
    \* whether Parser.parse() has run on the tokens, and how it ended
    parseState,
    \* the parsed program handed to the analyzer and to the interpreter
    ast,
    \* the SemanticAnalyzer object and the place analyze() has reached
    analyzer, anPc,
    \* the Interpreter object and the place run() has reached
    interp, runPc,
    \* the state of the App component: the editor's text, the diagnostics and
    \* the lines shown, the memory view, the Run button's flag
    code, errors, output, scopes, isRunning,
    \* whether the debounce timer is pending, and what handleRun's playback has
    \* yet to show
    timer, timeline

lexVars == <<source, pos, line, column, indentStack, tokenQueue, parenLevel,
             tokens, lexState>>

parseVars == <<parseState>>

pipeVars == <<ast, analyzer, anPc, interp, runPc>>

hostVars == <<code, errors, output, scopes, isRunning, timer, timeline>>

vars == <<lexVars, parseVars, pipeVars, hostVars>>

(***************************************************************************)
(* Bounds of the model                                                     *)
(***************************************************************************)
\* number of source lines of a lexer input
MaxLines == 3

(***************************************************************************)
(* Generic helpers                                                         *)
(***************************************************************************)
Last(s) == s[Len(s)]

Front(s) == SubSeq(s, 1, Len(s) - 1)

\* the i-th character (0-based, as in JS) of string s
CharAt(s, i) == SubSeq(s, i + 1, i + 1)

\* JS String.prototype.startsWith
StartsWith(s, p) == Len(p) <= Len(s) /\ SubSeq(s, 1, Len(p)) = p

(***************************************************************************)
(* Token kinds (types.js)                                                  *)
(***************************************************************************)
TokenType ==
    {"FN", "STRUCT", "LET", "MUT", "IF", "ELSE", "RETURN", "MATCH",
     "UNDERSCORE", "WHILE", "FOR", "IN", "TRAIT", "IMPL", "ENUM", "EXTERN",
     "THIS", "LESS", "GREATER", "SOME", "NONE", "OK", "ERR",
     "TYPE_INT", "TYPE_STR", "TYPE_BOOL",
     "IDENTIFIER", "NUMBER", "STRING", "BOOLEAN",
     "ASSIGN", "PLUS", "MINUS", "STAR", "SLASH", "FAT_ARROW", "THIN_ARROW",
     "AMPERSAND", "PIPE", "DOT", "DOUBLE_COLON",
     "EQ", "NOT_EQ", "LT", "GT", "LTE", "GTE",
     "LPAREN", "RPAREN", "LBRACE", "RBRACE", "COLON", "COMMA",
     "NEWLINE", "INDENT", "DEDENT", "EOF"}

\* TokenType.X for a member X that types.js does not define: JS undefined
UndefinedKind == "undefined"

Token(type, value, ln, col) ==
    [type |-> type, value |-> value, line |-> ln, column |-> col]

(***************************************************************************)
(* Lexer (lexer.js)                                                        *)
(***************************************************************************)
\* what peek() returns at end of input
NUL == "<NUL>"

LowerChars == {"a","b","c","d","e","f","g","h","i","j","k","l","m",
               "n","o","p","q","r","s","t","u","v","w","x","y","z"}
UpperChars == {"A","B","C","D","E","F","G","H","I","J","K","L","M",
               "N","O","P","Q","R","S","T","U","V","W","X","Y","Z"}
DigitChars == {"0","1","2","3","4","5","6","7","8","9"}

isWhitespace(c) == c = " " \/ c = "\t" \/ c = "\r"

isAlpha(c) == c \in LowerChars \/ c \in UpperChars \/ c = "_"

isDigit(c) == c \in DigitChars

isAlphaNumeric(c) == isAlpha(c) \/ isDigit(c)

peek(L) == IF L.pos < Len(L.source) THEN CharAt(L.source, L.pos) ELSE NUL

\* advance(): pos++ and column++ even past the end; a newline starts a line
advance(L) ==
    LET ch == IF L.pos < Len(L.source) THEN CharAt(L.source, L.pos) ELSE NUL
    IN  [L EXCEPT !.pos = @ + 1,
                  !.line = IF ch = "\n" THEN @ + 1 ELSE @,
                  !.column = IF ch = "\n" THEN 1 ELSE @ + 1]

getKeywordType(word) ==
    CASE word = "fn" -> "FN"
      [] word = "struct" -> "STRUCT"
      [] word = "let" -> "LET"
      [] word = "mut" -> "MUT"
      [] word = "if" -> "IF"
      [] word = "else" -> "ELSE"
      [] word = "while" -> "WHILE"
      [] word = "for" -> "FOR"
      [] word = "in" -> "IN"
      [] word = "trait" -> "TRAIT"
      [] word = "impl" -> "IMPL"
      [] word = "this" -> "THIS"
      [] word = "return" -> "RETURN"
      [] word = "match" -> "MATCH"
      [] word = "_" -> "UNDERSCORE"
      [] word = "int" -> "TYPE_INT"
      [] word = "str" -> "TYPE_STR"
      [] word = "bool" -> "TYPE_BOOL"
      [] word = "true" -> "BOOLEAN"
      [] word = "false" -> "BOOLEAN"
      [] word = "Some" -> "SOME"
      [] word = "None" -> "NONE"
      [] word = "Ok" -> "OK"
      [] word = "Err" -> "ERR"
      [] word = "enum" -> "ENUM"
      [] word = "extern" -> "EXTERN"
      [] OTHER -> "IDENTIFIER"

\* the run of characters satisfying the loop test of identifierOrKeyword(),
\* number(), string() and skipComment(), starting at L.pos
RECURSIVE ScanWhile(_, _)
ScanWhile(L, kind) ==
    LET c == peek(L)
        go == CASE kind = "alnum" -> isAlphaNumeric(c)
                [] kind = "digit" -> isDigit(c)
                [] kind = "string" -> c # "\"" /\ c # NUL
                [] kind = "comment" -> c # "\n" /\ c # NUL
                [] kind = "indent" -> c = " " \/ c = "\t"
    IN  IF go
        THEN LET r == ScanWhile(advance(L), kind)
             IN  [text |-> c \o r.text, L |-> r.L,
                  width |-> r.width + (IF c = "\t" THEN 4 ELSE 1)]
        ELSE [text |-> "", L |-> L, width |-> 0]

DigitValue(c) ==
    CASE c = "0" -> 0 [] c = "1" -> 1 [] c = "2" -> 2 [] c = "3" -> 3
      [] c = "4" -> 4 [] c = "5" -> 5 [] c = "6" -> 6 [] c = "7" -> 7
      [] c = "8" -> 8 [] c = "9" -> 9

\* parseInt of a run of decimal digits
RECURSIVE parseInt(_)
parseInt(s) ==
    IF Len(s) = 0 THEN 0
    ELSE 10 * parseInt(SubSeq(s, 1, Len(s) - 1)) + DigitValue(CharAt(s, Len(s) - 1))

Tok(t, L) == [kind |-> "token", token |-> t, L |-> L]

LexError(msg, L) ==
    [kind |-> "error", token |-> Token("EOF", msg, L.line, L.column), L |-> L]

identifierOrKeyword(L) ==
    LET r == ScanWhile(L, "alnum")
    IN  Tok(Token(getKeywordType(r.text), r.text, r.L.line,
                  r.L.column - Len(r.text)), r.L)

number(L) ==
    LET r == ScanWhile(L, "digit")
    IN  Tok(Token("NUMBER", parseInt(r.text), r.L.line,
                  r.L.column - Len(r.text)), r.L)

\* string(): the loop stops at the closing quote or at end of input, then
\* advance() is called unconditionally and a STRING token is returned
string(L) ==
    LET r == ScanWhile(advance(L), "string")
        L2 == advance(r.L)
    IN  Tok(Token("STRING", r.text, L2.line, L2.column - Len(r.text) - 2), L2)

\* a one-character symbol, and a symbol with an optional second character
Sym1(L, type, text, delta) ==
    LET L1 == [advance(L) EXCEPT !.parenLevel = @ + delta]
    IN  Tok(Token(type, text, L1.line, L1.column - 1), L1)

Sym2(L, second, type2, text2, type1, text1) ==
    LET L1 == advance(L)
        L2 == advance(L1)
    IN  IF peek(L1) = second
        THEN Tok(Token(type2, text2, L2.line, L2.column - 2), L2)
        ELSE IF type1 = "" THEN LexError("Unexpected character '" \o text1 \o "'", L1)
             ELSE Tok(Token(type1, text1, L1.line, L1.column - 1), L1)

symbol(L, c) ==
    CASE c = "=" ->
            IF peek(advance(L)) = ">"
            THEN Sym2(L, ">", "FAT_ARROW", "=>", "ASSIGN", "=")
            ELSE Sym2(L, "=", "EQ", "==", "ASSIGN", "=")
      [] c = "!" -> Sym2(L, "=", "NOT_EQ", "!=", "", "!")
      [] c = "<" -> Sym2(L, "=", "LTE", "<=", "LT", "<")
      [] c = ">" -> Sym2(L, "=", "GTE", ">=", "GT", ">")
      [] c = "+" -> Sym1(L, "PLUS", "+", 0)
      [] c = "-" -> Sym2(L, ">", "THIN_ARROW", "->", "MINUS", "-")
      [] c = "*" -> Sym1(L, "STAR", "*", 0)
      [] c = "/" -> Sym1(L, "SLASH", "/", 0)
      [] c = "&" -> Sym1(L, "AMPERSAND", "&", 0)
      [] c = ":" -> Sym2(L, ":", "DOUBLE_COLON", "::", "COLON", ":")
      [] c = "," -> Sym1(L, "COMMA", ",", 0)
      [] c = "." -> Sym1(L, "DOT", ".", 0)
      [] c = "(" -> Sym1(L, "LPAREN", "(", 1)
      [] c = ")" -> Sym1(L, "RPAREN", ")", -1)
      [] c = "{" -> Sym1(L, "LBRACE", "{", 1)
      [] c = "}" -> Sym1(L, "RBRACE", "}", -1)
      \* TokenType.LBRACKET and TokenType.RBRACKET are not members of types.js
      [] c = "[" -> Sym1(L, UndefinedKind, "[", 1)
      [] c = "]" -> Sym1(L, UndefinedKind, "]", -1)
      [] c = "|" -> Sym1(L, "PIPE", "|", 0)
      [] OTHER -> LexError("Unexpected character '" \o c \o "'", L)

\* a pop loop that queues no DEDENT
RECURSIVE PopDedentsSilent(_, _)
PopDedentsSilent(L, indentLevel) ==
    IF Len(L.indentStack) > 1 /\ Last(L.indentStack) > indentLevel
    THEN PopDedentsSilent([L EXCEPT !.indentStack = Front(@)], indentLevel)
    ELSE L

\* the while loop of handleNewline's dedent branch: one DEDENT per pop
RECURSIVE PopDedents(_, _)
PopDedents(L, indentLevel) ==
    IF Len(L.indentStack) > 1 /\ Last(L.indentStack) > indentLevel
    THEN PopDedents([L EXCEPT !.indentStack = Front(@),
                              !.tokenQueue = Append(@, Token("DEDENT", "", L.line, L.column))],
                    indentLevel)
    ELSE L

\* LayoutStep with the queue reset placed after the pop loop
LayoutStepClearAfter(L, indentLevel) ==
    LET currentIndent == Last(L.indentStack)
        nl == Token("NEWLINE", "\n", L.line - 1, 0)
    IN  IF indentLevel > currentIndent
        THEN Tok(nl, [L EXCEPT !.indentStack = Append(@, indentLevel),
                               !.tokenQueue = Append(@, Token("INDENT", "", L.line, L.column))])
        ELSE IF indentLevel < currentIndent
        THEN LET L1 == [PopDedents(L, indentLevel) EXCEPT !.tokenQueue = <<>>]
             IN  IF Last(L1.indentStack) # indentLevel
                 THEN LexError("Indentation error", L1)
                 ELSE Tok(nl, L1)
        ELSE Tok(nl, L)

\* the layout decision of handleNewline (lexer.js:194-218) once the line is
\* known to be neither blank nor inside brackets
LayoutStep(L, indentLevel) ==
    LET currentIndent == Last(L.indentStack)
        nl == Token("NEWLINE", "\n", L.line - 1, 0)
    IN  IF indentLevel > currentIndent
        THEN Tok(nl, [L EXCEPT !.indentStack = Append(@, indentLevel),
                               !.tokenQueue = Append(@, Token("INDENT", "", L.line, L.column))])
        ELSE IF indentLevel < currentIndent
        THEN LET L1 == PopDedents([L EXCEPT !.tokenQueue = <<>>], indentLevel)
             IN  IF Last(L1.indentStack) # indentLevel
                 THEN LexError("Indentation error", L1)
                 ELSE Tok(nl, L1)
        ELSE Tok(nl, L)

\* a layout rule applied at every bracket depth
LayoutActiveAlways(p) == TRUE

\* whether handleNewline applies the layout rule at bracket depth p
LayoutActive(p) == ~(p > 0)

RECURSIVE nextToken(_)
handleNewline(L) ==
    LET r == ScanWhile(advance(L), "indent")
        L1 == r.L
    IN  IF peek(L1) = "\n" \/ peek(L1) = "#" THEN nextToken(L1)
        ELSE IF ~LayoutActive(L1.parenLevel) THEN nextToken(L1)
        ELSE LayoutStep(L1, r.width)

nextToken(L) ==
    IF Len(L.tokenQueue) > 0
    THEN Tok(Head(L.tokenQueue), [L EXCEPT !.tokenQueue = Tail(@)])
    ELSE IF L.pos >= Len(L.source)
    THEN IF Len(L.indentStack) > 1
         THEN Tok(Token("DEDENT", "", L.line, L.column),
                  [L EXCEPT !.indentStack = Front(@)])
         ELSE Tok(Token("EOF", "", L.line, L.column), L)
    ELSE LET c == peek(L)
         IN  IF c = "\n" THEN handleNewline(L)
             ELSE IF isWhitespace(c) THEN nextToken(advance(L))
             ELSE IF c = "#" THEN nextToken(ScanWhile(L, "comment").L)
             ELSE IF isAlpha(c) THEN identifierOrKeyword(L)
             ELSE IF isDigit(c) THEN number(L)
             ELSE IF c = "\"" THEN string(L)
             ELSE symbol(L, c)

\* the Lexer object assembled from the state variables
LexerObj ==
    [source |-> source, pos |-> pos, line |-> line, column |-> column,
     indentStack |-> indentStack, tokenQueue |-> tokenQueue,
     parenLevel |-> parenLevel]

SetLexer(L) ==
    /\ pos' = L.pos
    /\ line' = L.line
    /\ column' = L.column
    /\ indentStack' = L.indentStack
    /\ tokenQueue' = L.tokenQueue
    /\ parenLevel' = L.parenLevel
    /\ UNCHANGED source

\* lexer inputs: up to MaxLines lines joined by newlines; a line is blank, an
\* identifier, a bracket, a comment or an unterminated string, at width 0 to 2
SourceLines == {"", "  ", "a", " a", "  a", "(", " (", ")", " )", "#", " #", "\"a"}

RECURSIVE SourcesOf(_)
SourcesOf(n) ==
    IF n = 1 THEN SourceLines
    ELSE {s \o "\n" \o l : s \in SourcesOf(n - 1), l \in SourceLines}

Sources == UNION {SourcesOf(n) : n \in 1..MaxLines}

(***************************************************************************)
(* String helpers used by the analyzer and the interpreter                 *)
(***************************************************************************)
\* position (1-based) of the first occurrence of character c in s, 0 if none
RECURSIVE IndexOfChar(_, _, _)
IndexOfChar(s, c, from) ==
    IF from > Len(s) THEN 0
    ELSE IF CharAt(s, from - 1) = c THEN from
    ELSE IndexOfChar(s, c, from + 1)

RECURSIVE LastIndexOfChar(_, _, _)
LastIndexOfChar(s, c, from) ==
    IF from < 1 THEN 0
    ELSE IF CharAt(s, from - 1) = c THEN from
    ELSE LastIndexOfChar(s, c, from - 1)

\* s.split('<')[0]
BeforeLt(s) ==
    LET i == IndexOfChar(s, "<", 1)
    IN  IF i = 0 THEN s ELSE SubSeq(s, 1, i - 1)

\* a lazy match: the text between the first '<' and the first '>' after it
AngleMatchLazy(s) ==
    LET i == IndexOfChar(s, "<", 1)
        j == IndexOfChar(s, ">", i + 1)
    IN  IF i > 0 /\ j > i + 1
        THEN [found |-> TRUE, inner |-> SubSeq(s, i + 1, j - 1)]
        ELSE [found |-> FALSE, inner |-> ""]

\* s.match(/<(.+)>/): the text between the first '<' and the last '>', when
\* at least one character lies between them; found = FALSE for a null match
AngleMatch(s) ==
    LET i == IndexOfChar(s, "<", 1)
        j == LastIndexOfChar(s, ">", Len(s))
    IN  IF i > 0 /\ j > i + 1
        THEN [found |-> TRUE, inner |-> SubSeq(s, i + 1, j - 1)]
        ELSE [found |-> FALSE, inner |-> ""]

\* s.trim() for blanks
RECURSIVE Trim(_)
Trim(s) ==
    IF Len(s) > 0 /\ CharAt(s, 0) = " " THEN Trim(SubSeq(s, 2, Len(s)))
    ELSE IF Len(s) > 0 /\ CharAt(s, Len(s) - 1) = " " THEN Trim(SubSeq(s, 1, Len(s) - 1))
    ELSE s

\* s.split(',').map(x => x.trim())
RECURSIVE SplitCommaTrim(_)
SplitCommaTrim(s) ==
    LET i == IndexOfChar(s, ",", 1)
    IN  IF i = 0 THEN <<Trim(s)>>
        ELSE <<Trim(SubSeq(s, 1, i - 1))>> \o SplitCommaTrim(SubSeq(s, i + 1, Len(s)))

\* String(n) for an integer n
RECURSIVE NatToStr(_)
NatToStr(n) ==
    IF n < 10 THEN CharAt("0123456789", n)
    ELSE NatToStr(n \div 10) \o CharAt("0123456789", n % 10)

IntToStr(n) == IF n < 0 THEN "-" \o NatToStr(0 - n) ELSE NatToStr(n)

\* JS object as an ordered list of <<key, value>> pairs: get, has, put
\* (assigning an existing key keeps its position, a new key goes last)
RECURSIVE ObjIndex(_, _, _)
\* the names every object literal inherits from Object.prototype
ObjectPrototype ==
    {"constructor", "hasOwnProperty", "isPrototypeOf", "propertyIsEnumerable",
     "toLocaleString", "toString", "valueOf"}

ObjIndex(obj, key, from) ==
    IF from > Len(obj) THEN 0
    ELSE IF obj[from][1] = key THEN from
    ELSE ObjIndex(obj, key, from + 1)

ObjHas(obj, key) == ObjIndex(obj, key, 1) > 0

ObjGet(obj, key) == obj[ObjIndex(obj, key, 1)][2]

ObjPut(obj, key, value) ==
    LET i == ObjIndex(obj, key, 1)
    IN  IF i > 0 THEN [obj EXCEPT ![i] = <<key, value>>]
        ELSE Append(obj, <<key, value>>)

(***************************************************************************)
(* AST nodes, as Parser builds them (parser.js)                            *)
(***************************************************************************)
\* a JS null / undefined child node
Null == [type |-> "Null"]

Program(body) == [type |-> "Program", body |-> body]

Param(name, ty) == [name |-> name, type |-> ty]

FunctionDef(name, params, returnType, body) ==
    [type |-> "FunctionDef", name |-> name, params |-> params,
     returnType |-> returnType, body |-> body]

\* genericParam is "" for the parser's null
StructDef(name, genericParam, fields) ==
    [type |-> "StructDef", name |-> name, genericParam |-> genericParam, fields |-> fields]

EnumDef(name, variants) == [type |-> "EnumDef", name |-> name, variants |-> variants]

TraitDef(name, methods) == [type |-> "TraitDef", name |-> name, methods |-> methods]

ImplBlock(traitName, targetType, methods) ==
    [type |-> "ImplBlock", traitName |-> traitName, targetType |-> targetType,
     methods |-> methods]

ExternFn(name, params) ==
    [type |-> "ExternFn", name |-> name, params |-> params, returnType |-> "void"]

\* varType is "" for the parser's null (no annotation)
VarDecl(name, varType, mutable, initializer) ==
    [type |-> "VarDecl", name |-> name, varType |-> varType, mutable |-> mutable,
     initializer |-> initializer]

DestructuringAssign(names, initializer, mutable) ==
    [type |-> "DestructuringAssign", names |-> names, initializer |-> initializer,
     mutable |-> mutable]

Assignment(name, value) == [type |-> "Assignment", name |-> name, value |-> value]

ExpressionStatement(e) == [type |-> "ExpressionStatement", expression |-> e]

Block(statements) == [type |-> "Block", statements |-> statements]

IfStmt(c, t, e) ==
    [type |-> "IfStmt", condition |-> c, thenBranch |-> t, elseBranch |-> e]

WhileStmt(c, body) == [type |-> "WhileStmt", condition |-> c, body |-> body]

ForStmt(item, iterator, body) ==
    [type |-> "ForStmt", item |-> item, iterator |-> iterator, body |-> body]

ReturnStmt(value) == [type |-> "ReturnStmt", value |-> value]

MatchStmt(subject, cases) == [type |-> "MatchStmt", subject |-> subject, cases |-> cases]

MatchCase(pattern, body) == [pattern |-> pattern, body |-> body]

Wildcard == [type |-> "Wildcard"]

\* Name::Variant [{ f, ... }] (the effective parseMatchStmt; it never sets
\* innerBind)
EnumPattern(enumName, variant, fields) ==
    [type |-> "EnumPattern", enumName |-> enumName, variant |-> variant,
     fields |-> fields]

IntLit(n) == [type |-> "Literal", valueType |-> "int", int |-> n]

StrLit(x) == [type |-> "Literal", valueType |-> "str", str |-> x]

BoolLit(b) == [type |-> "Literal", valueType |-> "bool", bool |-> b]

Identifier(name) == [type |-> "Identifier", name |-> name]

BinaryExpr(op, l, r) == [type |-> "BinaryExpr", operator |-> op, left |-> l, right |-> r]

\* callee is a name (parser.js:844) or a MemberAccess node (parser.js:863)
Callee(name) == [type |-> "String", name |-> name]

CallExpr(name, args) == [type |-> "CallExpr", callee |-> Callee(name), args |-> args]

MemberAccess(object, field) == [type |-> "MemberAccess", object |-> object, field |-> field]

MethodCall(object, method, args) ==
    [type |-> "CallExpr", callee |-> MemberAccess(object, method), args |-> args]

IndexExpr(object, index) == [type |-> "IndexExpr", object |-> object, index |-> index]

ArrayLiteral(elements) == [type |-> "ArrayLiteral", elements |-> elements]

TupleLiteral(elements) == [type |-> "TupleLiteral", elements |-> elements]

FieldInit(name, value) == [name |-> name, value |-> value]

StructInit(structName, fields) ==
    [type |-> "StructInit", structName |-> structName, fields |-> fields]

\* Name::Variant { f: v, ... } (parser.js:770-776): fields, and no value property
EnumStructVariant(enumType, variant, fields) ==
    [type |-> "EnumVariant", enumType |-> enumType, variant |-> variant,
     kind |-> "Struct", fields |-> fields, value |-> Null]

\* Name::Variant (parser.js:799-805)
EnumUnitVariant(enumType, variant) ==
    [type |-> "EnumVariant", enumType |-> enumType, variant |-> variant,
     kind |-> "Unit", fields |-> <<>>, value |-> Null]

\* Some(e), Ok(e), Err(e), None (parser.js:881-906)
EnumSugar(enumType, variant, value) ==
    [type |-> "EnumVariant", enumType |-> enumType, variant |-> variant,
     kind |-> "", fields |-> <<>>, value |-> value]

LambdaExpr(params, body) == [type |-> "LambdaExpr", params |-> params, body |-> body]

(***************************************************************************)
(* SemanticAnalyzer (debug_lexer.js:23-770)                                *)
(***************************************************************************)
\* the value of a visit that returns nothing (JS undefined), and its text in
\* a template string
TUndef == "<undefined>"

TypeText(t) == IF t = TUndef THEN "undefined" ELSE t

\* JS truthiness of a type value: undefined, null and "" are falsy
Truthy(t) == t # TUndef /\ t # ""

\* Scope.define's symbol record; an omitted mutable argument (undefined) is
\* kept as FALSE, the only way the code reads it is !varInfo.mutable
SymbolInfo(type, mutable) == [type |-> type, mutable |-> mutable, moved |-> FALSE]

\* new Scope(parent); scopes live in a heap, parent 0 is null
Scope(parent) == [parent |-> parent, symbols |-> <<>>]

\* protoMoved: the functions of Object.prototype that got a moved property
SemanticAnalyzer ==
    [scopes |-> <<Scope(0)>>, currentScope |-> 1, functions |-> <<>>,
     structs |-> <<>>, traits |-> <<>>, impls |-> <<>>, enums |-> <<>>,
     errors |-> <<>>, threw |-> FALSE, protoMoved |-> {}]

\* once a TypeError has left analyze() nothing more happens to its state
error(A, msg) == IF A.threw THEN A ELSE [A EXCEPT !.errors = Append(@, msg)]

\* a JS TypeError leaves analyze() as an exception
TypeError(A) == [A EXCEPT !.threw = TRUE]

PushScope(A) ==
    IF A.threw THEN A ELSE
    [A EXCEPT !.scopes = Append(@, Scope(A.currentScope)),
              !.currentScope = Len(A.scopes) + 1]

PopScope(A) ==
    IF A.threw THEN A ELSE
    [A EXCEPT !.currentScope = A.scopes[A.currentScope].parent]

define(A, name, type, mutable) ==
    IF A.threw THEN A ELSE
    [A EXCEPT !.scopes[A.currentScope].symbols = ObjPut(@, name, SymbolInfo(type, mutable))]

\* Scope.resolve: the scope that holds the name, 0 for null
RECURSIVE resolve(_, _, _)
resolve(A, s, name) ==
    IF s = 0 THEN 0
    ELSE IF ObjHas(A.scopes[s].symbols, name) \/ name \in ObjectPrototype THEN s
    ELSE resolve(A, A.scopes[s].parent, name)

\* this.symbols[name]: the symbol record, or for an inherited name a function
\* object, which has no type and no mutable property
VarInfo(A, s, name) ==
    IF ObjHas(A.scopes[s].symbols, name) THEN ObjGet(A.scopes[s].symbols, name)
    ELSE [type |-> TUndef, mutable |-> FALSE, moved |-> name \in A.protoMoved]

isPrimitiveInt(type) == type = "int"

isPrimitive(type) == type \in {"int", "bool", "str"}

handleMove(A, varName) ==
    LET s == resolve(A, A.currentScope, varName)
    IN  IF s = 0 \/ A.threw THEN A
        ELSE LET varInfo == VarInfo(A, s, varName)
             IN  IF isPrimitive(varInfo.type) THEN A
                 ELSE LET A1 == IF varInfo.moved
                                THEN error(A, "Value '" \o varName \o "' already moved")
                                ELSE A
                      IN  IF ObjHas(A.scopes[s].symbols, varName)
                          THEN [A1 EXCEPT !.scopes[s].symbols =
                                     ObjPut(@, varName, [varInfo EXCEPT !.moved = TRUE])]
                          ELSE [A1 EXCEPT !.protoMoved = @ \cup {varName}]

\* a print that consumes its argument
checkValidAccessMoves(A, varName) == handleMove(A, varName)

checkValidAccess(A, varName) ==
    LET s == resolve(A, A.currentScope, varName)
    IN  IF s # 0 /\ VarInfo(A, s, varName).moved
        THEN error(A, "Use of moved value '" \o varName \o "'")
        ELSE A

\* node.X.type === 'Identifier' ? handleMove(node.X.name)
MoveIfIdentifier(A, node) ==
    IF node.type = "Identifier" THEN handleMove(A, node.name) ELSE A

\* array.find(x => x.name === name): index of the first match, 0 if none
RECURSIVE FindByName(_, _, _)
FindByName(seq, name, from) ==
    IF from > Len(seq) THEN 0
    ELSE IF seq[from].name = name THEN from
    ELSE FindByName(seq, name, from + 1)

\* Pass 1 of visitProgram for one top-level statement
Register(A, stmt) ==
    IF stmt.type = "FunctionDef"
    THEN [A EXCEPT !.functions = ObjPut(@, stmt.name,
                       [params |-> stmt.params, returnType |-> stmt.returnType])]
    ELSE IF stmt.type = "StructDef"
    THEN LET A1 == IF ObjHas(A.structs, stmt.name)
                   THEN error(A, "Struct '" \o stmt.name \o "' is already defined")
                   ELSE A
         IN  [A1 EXCEPT !.structs = ObjPut(@, stmt.name,
                       [fields |-> stmt.fields, genericParam |-> stmt.genericParam])]
    ELSE IF stmt.type = "TraitDef"
    THEN [A EXCEPT !.traits = ObjPut(@, stmt.name, [methods |-> stmt.methods]),
                   !.impls = ObjPut(@, stmt.name, <<>>)]
    ELSE IF stmt.type = "ImplBlock"
    THEN LET typeMap == IF ObjHas(A.impls, stmt.traitName)
                        THEN ObjGet(A.impls, stmt.traitName) ELSE <<>>
         IN  [A EXCEPT !.impls = ObjPut(@, stmt.traitName,
                                        ObjPut(typeMap, stmt.targetType, stmt.methods))]
    ELSE A

RECURSIVE RegisterAll(_, _)
RegisterAll(A, body) ==
    IF Len(body) = 0 THEN A
    ELSE RegisterAll(Register(A, Head(body)), Tail(body))

\* the standard library injected after pass 1
StdLib ==
    << <<"print", [params |-> <<Param("msg", "any")>>, returnType |-> "void"]>>,
       <<"len", [params |-> <<Param("arr", "[any]")>>, returnType |-> "int"]>>,
       <<"range", [params |-> <<Param("n", "int")>>, returnType |-> "[int]"]>>,
       <<"to_string", [params |-> <<Param("x", "any")>>, returnType |-> "str"]>>,
       <<"to_int", [params |-> <<Param("x", "any")>>, returnType |-> "int"]>>,
       <<"alert", [params |-> <<Param("msg", "str")>>, returnType |-> "void"]>> >>

RECURSIVE InjectAll(_, _)
InjectAll(functions, lib) ==
    IF Len(lib) = 0 THEN functions
    ELSE InjectAll(ObjPut(functions, Head(lib)[1], Head(lib)[2]), Tail(lib))

\* visitProgram up to the start of pass 2
Pass1(A, program) ==
    LET A1 == RegisterAll(A, program.body)
    IN  [A1 EXCEPT !.functions = InjectAll(@, StdLib)]

\* the result of a visit: the returned type and the analyzer afterwards
Ret(t, A) == [t |-> t, A |-> A]

RECURSIVE SA_visit(_, _)
RECURSIVE SA_visitAll(_, _)
RECURSIVE SA_visitStructFields(_, _, _, _)
RECURSIVE SA_visitCases(_, _, _)
RECURSIVE SA_visitElements(_, _, _, _)
RECURSIVE SA_visitTuple(_, _, _)
RECURSIVE SA_visitPrintArgs(_, _)
RECURSIVE SA_visitArgs(_, _, _, _)
RECURSIVE SA_visitMethods(_, _, _)

\* params.forEach(p => define(p.name, p.type || 'any', false))
RECURSIVE DefineParams(_, _)
DefineParams(A, params) ==
    IF Len(params) = 0 THEN A
    ELSE DefineParams(define(A, Head(params).name,
                             IF Truthy(Head(params).type) THEN Head(params).type ELSE "any",
                             FALSE),
                      Tail(params))

\* names.forEach(f => define(f, 'any'))
RECURSIVE DefineFields(_, _)
DefineFields(A, names) ==
    IF Len(names) = 0 THEN A
    ELSE DefineFields(define(A, Head(names), "any", FALSE), Tail(names))

\* nodes.forEach(stmt => this.visit(stmt))
SA_visitAll(nodes, A) ==
    IF Len(nodes) = 0 THEN A
    ELSE SA_visitAll(Tail(nodes), SA_visit(Head(nodes), A).A)

SA_visitFunctionDef(node, A) ==
    LET A1 == DefineParams(PushScope(A), node.params)
        A2 == SA_visit(node.body, A1).A
    IN  Ret(TUndef, PopScope(A2))

SA_visitBlock(node, A) ==
    Ret(TUndef, PopScope(SA_visitAll(node.statements, PushScope(A))))

SA_visitLambdaExpr(node, A) ==
    LET A1 == DefineParams(PushScope(A), node.params)
        A2 == SA_visit(node.body, A1).A
    IN  Ret("function", PopScope(A2))

SA_visitWhileStmt(node, A) ==
    LET c == SA_visit(node.condition, A)
        A1 == IF c.t # "bool"
              THEN error(c.A, "While condition must be a boolean, got " \o TypeText(c.t))
              ELSE c.A
    IN  Ret(TUndef, SA_visit(node.body, A1).A)

SA_visitIfStmt(node, A) ==
    LET c == SA_visit(node.condition, A)
        A1 == IF c.t # "bool"
              THEN error(c.A, "If condition must be a boolean, got " \o TypeText(c.t))
              ELSE c.A
        A2 == SA_visit(node.thenBranch, A1).A
    IN  Ret(TUndef, SA_visit(node.elseBranch, A2).A)

SA_visitReturnStmt(node, A) == Ret(TUndef, SA_visit(node.value, A).A)

\* the forEach over node.fields of visitStructInit, from the i-th field on
SA_visitStructFields(node, structDef, i, A) ==
    IF i > Len(node.fields) THEN A
    ELSE LET f == node.fields[i]
             k == FindByName(structDef.fields, f.name, 1)
         IN  IF k = 0
             THEN SA_visitStructFields(node, structDef, i + 1,
                      error(A, "Struct '" \o node.structName \o "' has no field '"
                               \o f.name \o "'"))
             ELSE LET fieldDef == structDef.fields[k]
                      v == SA_visit(f.value, A)
                      A1 == IF Truthy(structDef.genericParam)
                               /\ fieldDef.type = structDef.genericParam
                            THEN v.A
                            ELSE IF v.t # fieldDef.type
                            THEN error(v.A, "Type mismatch in '" \o node.structName \o "."
                                     \o f.name \o "': expected " \o fieldDef.type
                                     \o ", got " \o TypeText(v.t))
                            ELSE v.A
                  IN  SA_visitStructFields(node, structDef, i + 1,
                                           MoveIfIdentifier(A1, f.value))

\* structDef.fields.forEach(fd => if (!processedFields.has(fd.name)) error(..))
RECURSIVE MissingFields(_, _, _, _)
MissingFields(node, structDef, i, A) ==
    IF i > Len(structDef.fields) THEN A
    ELSE LET fd == structDef.fields[i]
         IN  MissingFields(node, structDef, i + 1,
                 IF FindByName(node.fields, fd.name, 1) = 0
                 THEN error(A, "Missing field '" \o fd.name \o "' in struct '"
                               \o node.structName \o "' instantiation")
                 ELSE A)

\* structDef.fields.find(f => f.type === structDef.genericParam)
RECURSIVE FindByType(_, _, _)
FindByType(seq, ty, from) ==
    IF from > Len(seq) THEN 0
    ELSE IF seq[from].type = ty THEN from
    ELSE FindByType(seq, ty, from + 1)

SA_visitStructInit(node, A) ==
    IF ~ObjHas(A.structs, node.structName)
    THEN Ret("unknown", error(A, "Undefined struct '" \o node.structName \o "'"))
    ELSE LET structDef == ObjGet(A.structs, node.structName)
             A1 == SA_visitStructFields(node, structDef, 1, A)
             A2 == MissingFields(node, structDef, 1, A1)
         IN  IF Truthy(structDef.genericParam)
             THEN LET k == FindByType(structDef.fields, structDef.genericParam, 1)
                      j == IF k = 0 THEN 0
                           ELSE FindByName(node.fields, structDef.fields[k].name, 1)
                  IN  IF j = 0
                      THEN Ret(node.structName \o "<unknown>", A2)
                      ELSE LET inferredT == SA_visit(node.fields[j].value, A2)
                           IN  Ret(node.structName \o "<" \o TypeText(inferredT.t) \o ">",
                                   inferredT.A)
             ELSE Ret(node.structName, A2)

SA_visitMemberAccess(node, A) ==
    LET o == SA_visit(node.object, A)
        objectType == o.t
    IN  IF isPrimitive(objectType)
        THEN Ret("unknown", error(o.A, "Cannot access member '" \o node.field
                                       \o "' on primitive type " \o objectType))
        ELSE IF objectType = TUndef
        THEN Ret(TUndef, TypeError(o.A))
        ELSE LET baseType == BeforeLt(objectType)
             IN  IF ~ObjHas(o.A.structs, baseType)
                 THEN Ret("unknown", o.A)
                 ELSE LET structDef == ObjGet(o.A.structs, baseType)
                          k == FindByName(structDef.fields, node.field, 1)
                      IN  IF k = 0
                          THEN Ret("unknown", error(o.A, "Struct '" \o objectType
                                       \o "' has no field '" \o node.field \o "'"))
                          ELSE IF Truthy(structDef.genericParam)
                                  /\ structDef.fields[k].type = structDef.genericParam
                                  /\ AngleMatch(objectType).found
                          THEN Ret(AngleMatch(objectType).inner, o.A)
                          ELSE Ret(structDef.fields[k].type, o.A)

\* the forEach over node.cases of visitMatchStmt
SA_visitCases(cases, subjectType, A) ==
    IF Len(cases) = 0 THEN A
    ELSE LET c == Head(cases)
             family == IF c.pattern.variant \in {"Some", "None"} THEN "Option" ELSE "Result"
             A1 == IF c.pattern.type = "Wildcard" THEN A
                   ELSE IF c.pattern.type = "EnumPattern"
                   THEN IF c.pattern.variant \in {"Some", "None", "Ok", "Err"}
                        THEN IF subjectType = TUndef THEN TypeError(A)
                             ELSE IF ~StartsWith(subjectType, family)
                             THEN error(A, "Pattern " \o c.pattern.variant \o " expects "
                                           \o family \o " type, got " \o subjectType)
                             ELSE A
                        ELSE DefineFields(
                                 IF Truthy(c.pattern.enumName) /\ subjectType # c.pattern.enumName
                                 THEN error(A, "Pattern expects " \o c.pattern.enumName
                                               \o ", got " \o TypeText(subjectType))
                                 ELSE A,
                                 c.pattern.fields)
                   ELSE LET p == SA_visit(c.pattern, A)
                        IN  IF p.t # subjectType
                            THEN error(p.A, "Match pattern type mismatch: Expected "
                                       \o TypeText(subjectType) \o ", got " \o TypeText(p.t))
                            ELSE p.A
         IN  SA_visitCases(Tail(cases), subjectType, SA_visit(c.body, A1).A)

SA_visitMatchStmt(node, A) ==
    LET s == SA_visit(node.subject, A)
    IN  Ret(TUndef, SA_visitCases(node.cases, s.t, MoveIfIdentifier(s.A, node.subject)))

\* the loop of visitArrayLiteral over elements[i..]
SA_visitElements(elements, i, firstType, A) ==
    IF i > Len(elements) THEN A
    ELSE LET e == SA_visit(elements[i], A)
         IN  SA_visitElements(elements, i + 1, firstType,
                 IF e.t # firstType /\ e.t # "any" /\ firstType # "any"
                 THEN error(e.A, "Array elements must be of same type. Expected "
                                 \o TypeText(firstType) \o ", found " \o TypeText(e.t))
                 ELSE e.A)

SA_visitArrayLiteral(node, A) ==
    IF Len(node.elements) = 0 THEN Ret("[any]", A)
    ELSE LET first == SA_visit(node.elements[1], A)
         IN  Ret("[" \o TypeText(first.t) \o "]",
                 SA_visitElements(node.elements, 2, first.t, first.A))

\* elements.map(e => visit(e)).join(', '); join writes undefined as ""
SA_visitTuple(elements, text, A) ==
    IF Len(elements) = 0 THEN Ret(text, A)
    ELSE LET e == SA_visit(Head(elements), A)
         IN  SA_visitTuple(Tail(elements),
                           text \o (IF e.t = TUndef THEN "" ELSE e.t)
                                \o (IF Len(elements) > 1 THEN ", " ELSE ""),
                           e.A)

SA_visitTupleLiteral(node, A) ==
    LET r == SA_visitTuple(node.elements, "", A)
    IN  Ret("(" \o r.t \o ")", r.A)

SA_visitIndexExpr(node, A) ==
    LET o == SA_visit(node.object, A)
        i == SA_visit(node.index, o.A)
        A1 == IF i.t # "int"
              THEN error(i.A, "Array index must be integer, found " \o TypeText(i.t))
              ELSE i.A
    IN  IF o.t = TUndef THEN Ret(TUndef, TypeError(A1))
        ELSE IF StartsWith(o.t, "[") THEN Ret(SubSeq(o.t, 2, Len(o.t) - 1), A1)
        ELSE IF o.t = "str" THEN Ret("str", A1)
        ELSE Ret("any", error(A1, "Cannot index type " \o o.t))

SA_visitExternFn(node, A) ==
    Ret(TUndef, IF A.threw THEN A
                ELSE [A EXCEPT !.functions = ObjPut(@, node.name,
                         [params |-> node.params, returnType |-> node.returnType])])

SA_visitEnumDef(node, A) ==
    Ret(TUndef, IF A.threw THEN A
                ELSE [A EXCEPT !.enums = ObjPut(@, node.name, [variants |-> node.variants])])

SA_visitForStmt(node, A) ==
    LET it == SA_visit(node.iterator, A)
        iterType == it.t
    IN  IF iterType = TUndef THEN Ret(TUndef, TypeError(it.A))
        ELSE LET itemType == IF StartsWith(iterType, "[")
                             THEN SubSeq(iterType, 2, Len(iterType) - 1)
                             ELSE IF iterType = "str" THEN "str" ELSE "any"
                 A1 == IF StartsWith(iterType, "[") \/ iterType = "str" THEN it.A
                       ELSE error(it.A, "Type " \o iterType \o " is not iterable")
                 A2 == define(PushScope(A1), node.item, itemType, FALSE)
             IN  Ret(TUndef, PopScope(SA_visit(node.body, A2).A))

\* names.forEach((name, i) => define(name, types[i] || 'any', mutable))
RECURSIVE DefineNames(_, _, _, _, _)
DefineNames(A, names, types, i, mutable) ==
    IF i > Len(names) THEN A
    ELSE DefineNames(define(A, names[i],
                            IF i <= Len(types) /\ Truthy(types[i]) THEN types[i] ELSE "any",
                            mutable),
                     names, types, i + 1, mutable)

SA_visitDestructuringAssign(node, A) ==
    LET v == SA_visit(node.initializer, A)
        valType == v.t
    IN  IF valType = TUndef THEN Ret(TUndef, TypeError(v.A))
        ELSE IF ~StartsWith(valType, "(")
        THEN Ret(TUndef, error(v.A, "Destructuring requires tuple type, found " \o valType))
        ELSE LET types == SplitCommaTrim(SubSeq(valType, 2, Len(valType) - 1))
                 A1 == IF Len(node.names) # Len(types)
                       THEN error(v.A, "Destructuring mismatch variables")
                       ELSE v.A
             IN  Ret(TUndef, DefineNames(A1, node.names, types, 1, node.mutable))

SA_visitVarDecl(node, A) ==
    LET init == IF node.initializer.type = "Null" THEN Ret(TUndef, A)
                ELSE LET r == SA_visit(node.initializer, A)
                     IN  Ret(r.t, MoveIfIdentifier(r.A, node.initializer))
        initType == init.t
        varType == IF Truthy(node.varType) THEN node.varType
                   ELSE IF Truthy(initType) THEN initType ELSE "unknown"
        A1 == IF ~Truthy(node.varType)
              THEN IF Truthy(initType) THEN init.A
                   ELSE error(init.A, "Variable '" \o node.name
                                \o "' must have a type annotation or initializer")
              ELSE IF Truthy(initType) /\ initType # node.varType /\ initType # "any"
              THEN error(init.A, "Type mismatch: Variable '" \o node.name \o "' expects "
                                 \o node.varType \o ", got " \o initType)
              ELSE init.A
    IN  Ret(TUndef, define(A1, node.name, varType, node.mutable))

SA_visitAssignment(node, A) ==
    LET s == resolve(A, A.currentScope, node.name)
    IN  IF s = 0
        THEN Ret(TUndef, error(A, "Undefined variable '" \o node.name \o "'"))
        ELSE LET varInfo == VarInfo(A, s, node.name)
                 A1 == IF ~varInfo.mutable
                       THEN error(A, "Cannot assign to immutable variable '"
                                     \o node.name \o "'")
                       ELSE A
                 A2 == IF varInfo.moved
                       THEN error(A1, "Cannot assign to moved variable '" \o node.name \o "'")
                       ELSE A1
                 v == SA_visit(node.value, A2)
                 A3 == IF v.t # varInfo.type
                       THEN error(v.A, "Type mismatch: Cannot assign " \o TypeText(v.t)
                                  \o " to " \o TypeText(varInfo.type) \o " '" \o node.name \o "'")
                       ELSE v.A
             IN  Ret(TUndef, MoveIfIdentifier(A3, node.value))

\* only Some, None, Ok and Err have a type; any other variant returns nothing
SA_visitEnumVariant(node, A) ==
    IF node.variant = "Some"
    THEN LET v == SA_visit(node.value, A)
         IN  Ret("Option<" \o TypeText(v.t) \o ">", v.A)
    ELSE IF node.variant = "None" THEN Ret("Option<any>", A)
    ELSE IF node.variant = "Ok"
    THEN LET v == SA_visit(node.value, A)
         IN  Ret("Result<" \o TypeText(v.t) \o ", any>", v.A)
    ELSE IF node.variant = "Err"
    THEN LET v == SA_visit(node.value, A)
         IN  Ret("Result<any, " \o TypeText(v.t) \o ">", v.A)
    ELSE Ret(TUndef, A)

\* the scan of visitCallExpr over this.impls (trait by trait, exact type key):
\* the first method of that name, as <<method>>, or <<>> for null
RECURSIVE SA_findMethod(_, _, _, _)
SA_findMethod(impls, objType, methodName, i) ==
    IF i > Len(impls) THEN <<>>
    ELSE LET typeMap == impls[i][2]
             k == IF ObjHas(typeMap, TypeText(objType))
                  THEN FindByName(ObjGet(typeMap, TypeText(objType)), methodName, 1)
                  ELSE 0
         IN  IF k > 0 THEN <<ObjGet(typeMap, TypeText(objType))[k]>>
             ELSE SA_findMethod(impls, objType, methodName, i + 1)

\* print's arguments are visited and checked, never moved
SA_visitPrintArgs(args, A) ==
    IF Len(args) = 0 THEN A
    ELSE LET a == SA_visit(Head(args), A)
         IN  SA_visitPrintArgs(Tail(args),
                 IF Head(args).type = "Identifier"
                 THEN checkValidAccess(a.A, Head(args).name)
                 ELSE a.A)

\* node.args.forEach((arg, idx) => ..) of a call of a registered function
SA_visitArgs(node, func, idx, A) ==
    IF idx > Len(node.args) \/ A.threw THEN A
    ELSE LET arg == node.args[idx]
             a == SA_visit(arg, A)
             argType == a.t
         IN  IF idx > Len(func.params) THEN TypeError(a.A)
             ELSE LET paramType == func.params[idx].type
                      A1 == IF argType = paramType THEN a.A
                            ELSE IF paramType = "[any]"
                            THEN IF argType = TUndef THEN TypeError(a.A)
                                 ELSE IF StartsWith(argType, "[") THEN a.A
                                 ELSE error(a.A, "Argument mismatch for '" \o node.callee.name
                                        \o "': expected " \o paramType \o ", got " \o argType)
                            ELSE IF paramType = "any" THEN a.A
                            ELSE error(a.A, "Argument mismatch for '" \o node.callee.name
                                        \o "': expected " \o paramType \o ", got "
                                        \o TypeText(argType))
                  IN  SA_visitArgs(node, func, idx + 1, MoveIfIdentifier(A1, arg))

SA_visitCallExpr(node, A) ==
    IF node.callee.type = "MemberAccess"
    THEN LET o == SA_visit(node.callee.object, A)
             methodName == node.callee.field
             found == SA_findMethod(o.A.impls, o.t, methodName, 1)
         IN  IF found = <<>>
             THEN Ret("void", error(o.A, "Method '" \o methodName \o "' not found for type '"
                                         \o TypeText(o.t) \o "'"))
             ELSE Ret(found[1].returnType,
                      IF Len(node.args) # Len(found[1].params)
                      THEN error(o.A, "Method '" \o methodName \o "' expects "
                                 \o IntToStr(Len(found[1].params)) \o " arguments, got "
                                 \o IntToStr(Len(node.args)))
                      ELSE o.A)
    ELSE IF node.callee.name = "print"
    THEN Ret("void", SA_visitPrintArgs(node.args, A))
    ELSE IF ~ObjHas(A.functions, node.callee.name)
    THEN LET s == resolve(A, A.currentScope, node.callee.name)
         IN  IF s # 0 /\ VarInfo(A, s, node.callee.name).type \in {"function", "any"}
             THEN Ret("any", A)
             ELSE Ret("void", error(A, "Undefined function '" \o node.callee.name \o "'"))
    ELSE LET func == ObjGet(A.functions, node.callee.name)
             A1 == IF Len(node.args) # Len(func.params)
                   THEN error(A, "Function '" \o node.callee.name \o "' expects "
                              \o IntToStr(Len(func.params)) \o " arguments, got "
                              \o IntToStr(Len(node.args)))
                   ELSE A
         IN  Ret(IF Truthy(func.returnType) THEN func.returnType ELSE "void",
                 SA_visitArgs(node, func, 1, A1))

\* node.methods.forEach(method => ..) of visitImplBlock
SA_visitMethods(methods, targetType, A) ==
    IF Len(methods) = 0 THEN A
    ELSE LET method == Head(methods)
             A1 == define(PushScope(A), "this", targetType, FALSE)
             A2 == DefineParams(A1, method.params)
         IN  SA_visitMethods(Tail(methods), targetType,
                             PopScope(SA_visit(method.body, A2).A))

SA_visitImplBlock(node, A) == Ret(TUndef, SA_visitMethods(node.methods, node.targetType, A))

SA_visitIdentifier(node, A) ==
    LET s == resolve(A, A.currentScope, node.name)
    IN  IF s = 0
        THEN Ret("unknown", error(A, "Undefined variable '" \o node.name \o "'"))
        ELSE LET varInfo == VarInfo(A, s, node.name)
             IN  Ret(varInfo.type,
                     IF varInfo.moved
                     THEN error(A, "Use of moved value '" \o node.name \o "'")
                     ELSE A)

SA_visitBinaryExpr(node, A) ==
    LET l == SA_visit(node.left, A)
        r == SA_visit(node.right, l.A)
        leftType == l.t
        rightType == r.t
    IN  IF node.operator = "+" /\ (leftType = "str" \/ rightType = "str")
        THEN Ret("str", r.A)
        ELSE LET A1 == IF leftType # rightType /\ leftType # "any" /\ rightType # "any"
                       THEN error(r.A, "Binary operator '" \o node.operator
                                  \o "' cannot be applied to types " \o TypeText(leftType)
                                  \o " and " \o TypeText(rightType))
                       ELSE r.A
             IN  IF node.operator \in {"==", "!=", "<", ">", "<=", ">="}
                 THEN Ret("bool", A1)
                 ELSE Ret(IF leftType = "any" \/ rightType = "any" THEN "any" ELSE leftType,
                          A1)

\* SemanticAnalyzer.visit: dispatch on node.type; a null node and a node type
\* without a visit method return nothing
SA_visit(node, A) ==
    IF A.threw THEN Ret(TUndef, A)
    ELSE CASE node.type = "ExpressionStatement" -> Ret(TUndef, SA_visit(node.expression, A).A)
           [] node.type = "FunctionDef" -> SA_visitFunctionDef(node, A)
           [] node.type = "Block" -> SA_visitBlock(node, A)
           [] node.type = "LambdaExpr" -> SA_visitLambdaExpr(node, A)
           [] node.type = "WhileStmt" -> SA_visitWhileStmt(node, A)
           [] node.type = "StructInit" -> SA_visitStructInit(node, A)
           [] node.type = "MemberAccess" -> SA_visitMemberAccess(node, A)
           [] node.type = "MatchStmt" -> SA_visitMatchStmt(node, A)
           [] node.type = "ArrayLiteral" -> SA_visitArrayLiteral(node, A)
           [] node.type = "TupleLiteral" -> SA_visitTupleLiteral(node, A)
           [] node.type = "IndexExpr" -> SA_visitIndexExpr(node, A)
           [] node.type = "ExternFn" -> SA_visitExternFn(node, A)
           [] node.type = "EnumDef" -> SA_visitEnumDef(node, A)
           [] node.type = "ForStmt" -> SA_visitForStmt(node, A)
           [] node.type = "DestructuringAssign" -> SA_visitDestructuringAssign(node, A)
           [] node.type = "IfStmt" -> SA_visitIfStmt(node, A)
           [] node.type = "ReturnStmt" -> SA_visitReturnStmt(node, A)
           [] node.type = "VarDecl" -> SA_visitVarDecl(node, A)
           [] node.type = "Assignment" -> SA_visitAssignment(node, A)
           [] node.type = "EnumVariant" -> SA_visitEnumVariant(node, A)
           [] node.type = "CallExpr" -> SA_visitCallExpr(node, A)
           [] node.type = "ImplBlock" -> SA_visitImplBlock(node, A)
           [] node.type = "Identifier" -> SA_visitIdentifier(node, A)
           [] node.type = "BinaryExpr" -> SA_visitBinaryExpr(node, A)
           [] node.type = "Literal" -> Ret(node.valueType, A)
           [] node.type = "Wildcard" -> Ret("any", A)
           [] OTHER -> Ret(TUndef, A)

(***************************************************************************)
(* Interpreter run-time values (debug_lexer.js:779-1394)                   *)
(***************************************************************************)
\* JS values, tagged by kind; objects carry a reference so that === can
\* compare identities
VInt(n) == [k |-> "int", i |-> n]

VStr(x) == [k |-> "str", s |-> x]

VBool(x) == [k |-> "bool", b |-> x]

VNull == [k |-> "null"]

\* a function object of the JS runtime
VNative(name) == [k |-> "native", name |-> name]

VUndef == [k |-> "undefined"]

VNaN == [k |-> "nan"]

\* an inexact or infinite quotient, kept as the ratio it came from
VReal(n, d) == [k |-> "real", n |-> n, d |-> d]

\* a plain object: a struct instance { _type, ...fields } or an enum value
\* { enumType, variant, value }
VObj(ref, props) == [k |-> "obj", ref |-> ref, props |-> props]

VArray(ref, elems) == [k |-> "array", ref |-> ref, elems |-> elems]

\* { type: 'Closure', params, body, capturedEnv }
VClosure(ref, params, body, capturedEnv) ==
    [k |-> "closure", ref |-> ref, params |-> params, body |-> body,
     capturedEnv |-> capturedEnv]

\* the value of a Literal node
LiteralValue(node) ==
    IF node.valueType = "int" THEN VInt(node.int)
    ELSE IF node.valueType = "str" THEN VStr(node.str)
    ELSE VBool(node.bool)

\* JS truthiness
JSTruthy(v) ==
    CASE v.k = "int" -> v.i # 0
      [] v.k = "str" -> v.s # ""
      [] v.k = "bool" -> v.b
      [] v.k \in {"null", "undefined", "nan"} -> FALSE
      [] OTHER -> TRUE

\* the isPrimitive of visitIdentifier: typeof number, boolean, string, or null
IsPrimitiveValue(v) == v.k \in {"int", "nan", "real", "bool", "str", "null"}

\* String(v); Array.prototype.join writes null and undefined as ""
RECURSIVE ToStr(_)
RECURSIVE JoinValues(_, _)
JoinValues(vs, sep) ==
    IF Len(vs) = 0 THEN ""
    ELSE (IF Head(vs).k \in {"null", "undefined"} THEN "" ELSE ToStr(Head(vs)))
         \o (IF Len(vs) > 1 THEN sep \o JoinValues(Tail(vs), sep) ELSE "")

ToStr(v) ==
    CASE v.k = "int" -> IntToStr(v.i)
      [] v.k = "str" -> v.s
      [] v.k = "bool" -> IF v.b THEN "true" ELSE "false"
      [] v.k = "null" -> "null"
      [] v.k = "undefined" -> "undefined"
      [] v.k = "nan" -> "NaN"
      [] v.k = "real" -> IntToStr(v.n) \o "/" \o IntToStr(v.d)
      [] v.k = "array" -> JoinValues(v.elems, ",")
      [] OTHER -> "[object Object]"

\* whether a string is a decimal integer literal, for Number(s)
RECURSIVE AllDigits(_)
AllDigits(s) == Len(s) = 0 \/ (isDigit(CharAt(s, 0)) /\ AllDigits(SubSeq(s, 2, Len(s))))

\* Number(v): <<n>> for the integer n, <<>> for NaN
ToNum(v) ==
    CASE v.k = "int" -> <<v.i>>
      [] v.k = "bool" -> IF v.b THEN <<1>> ELSE <<0>>
      [] v.k = "null" -> <<0>>
      [] v.k = "str" ->
            LET t == Trim(v.s)
            IN  IF t = "" THEN <<0>>
                ELSE IF AllDigits(t) THEN <<parseInt(t)>>
                ELSE IF CharAt(t, 0) = "-" /\ Len(t) > 1 /\ AllDigits(SubSeq(t, 2, Len(t)))
                THEN <<0 - parseInt(SubSeq(t, 2, Len(t)))>>
                ELSE <<>>
      [] OTHER -> <<>>

NumValue(n) == IF n = <<>> THEN VNaN ELSE VInt(n[1])

\* a === b
StrictEq(a, b) ==
    IF a.k # b.k THEN FALSE
    ELSE IF a.k \in {"nan", "real"} THEN FALSE
    ELSE IF a.k \in {"obj", "array", "closure"} THEN a.ref = b.ref
    ELSE a = b

\* character order (UTF-16 code units) for the relational operators on two
\* strings, over blanks, digits and letters
CharOrder == " 0123456789ABCDEFGHIJKLMNOPQRSTUVWXYZabcdefghijklmnopqrstuvwxyz"

RECURSIVE StrLess(_, _)
StrLess(a, b) ==
    IF Len(b) = 0 THEN FALSE
    ELSE IF Len(a) = 0 THEN TRUE
    ELSE LET x == IndexOfChar(CharOrder, CharAt(a, 0), 1)
             y == IndexOfChar(CharOrder, CharAt(b, 0), 1)
         IN  IF x # y THEN x < y
             ELSE StrLess(SubSeq(a, 2, Len(a)), SubSeq(b, 2, Len(b)))

\* a `+` that always adds numbers, never concatenating
JSPlusNumeric(l, r) ==
    IF ToNum(l) = <<>> \/ ToNum(r) = <<>> THEN VNaN
    ELSE VInt(ToNum(l)[1] + ToNum(r)[1])

\* the switch of visitBinaryExpr on two evaluated operands
JSPlus(l, r) ==
    IF l.k \in {"str", "obj", "array", "closure"} \/ r.k \in {"str", "obj", "array", "closure"}
    THEN VStr(ToStr(l) \o ToStr(r))
    ELSE IF ToNum(l) = <<>> \/ ToNum(r) = <<>> THEN VNaN
    ELSE VInt(ToNum(l)[1] + ToNum(r)[1])

JSLess(l, r) ==
    IF l.k = "str" /\ r.k = "str" THEN StrLess(l.s, r.s)
    ELSE ToNum(l) # <<>> /\ ToNum(r) # <<>> /\ ToNum(l)[1] < ToNum(r)[1]

JSLessEq(l, r) ==
    IF l.k = "str" /\ r.k = "str" THEN ~StrLess(r.s, l.s)
    ELSE ToNum(l) # <<>> /\ ToNum(r) # <<>> /\ ToNum(l)[1] <= ToNum(r)[1]

BinaryOp(op, l, r) ==
    LET a == ToNum(l)
        b == ToNum(r)
    IN  CASE op = "+" -> JSPlus(l, r)
          [] op = "-" -> IF a = <<>> \/ b = <<>> THEN VNaN ELSE VInt(a[1] - b[1])
          [] op = "*" -> IF a = <<>> \/ b = <<>> THEN VNaN ELSE VInt(a[1] * b[1])
          [] op = "/" -> IF a = <<>> \/ b = <<>> THEN VNaN
                         ELSE IF b[1] # 0 /\ a[1] % b[1] = 0 THEN VInt(a[1] \div b[1])
                         ELSE IF a[1] = 0 /\ b[1] = 0 THEN VNaN
                         ELSE VReal(a[1], b[1])
          [] op = "==" -> VBool(StrictEq(l, r))
          [] op = "!=" -> VBool(~StrictEq(l, r))
          [] op = "<" -> VBool(JSLess(l, r))
          [] op = ">" -> VBool(JSLess(r, l))
          [] op = "<=" -> VBool(JSLessEq(l, r))
          [] op = ">=" -> VBool(JSLessEq(r, l))
          [] OTHER -> VNull

(***************************************************************************)
(* Environment and Interpreter state                                       *)
(***************************************************************************)
\* new Environment(parent): environments live in a heap and an environment's
\* id is its place in it (the code draws the id from Math.random, taken
\* here to be fresh); parent 0 is null
Environment(parent) == [parent |-> parent, values |-> <<>>]

\* the hosts that run the interpreter: a browser page (window defined, with
\* window.alert) or Node (global defined, without alert)
Hosts == {"browser", "node"}

\* new Interpreter(ast, onOutput, onEvent): output and events are the lines
\* and events handed to the two sinks; status is "ok", or the exception in
\* flight ("return" with its payload ret, "error" with its message err)
Interpreter(host) ==
    [envs |-> <<Environment(0)>>, globalEnv |-> 1, currentEnv |-> 1,
     functions |-> <<>>, impls |-> <<>>, events |-> <<>>, output |-> <<>>,
     hostCalls |-> <<>>, nextRef |-> 1, status |-> "ok", ret |-> VNull,
     err |-> "", host |-> host]

\* the result of a visit: the value and the interpreter afterwards
Res(v, st) == [v |-> v, st |-> st]

onEvent(st, ev) == [st EXCEPT !.events = Append(@, ev)]

onOutput(st, text) == [st EXCEPT !.output = Append(@, text)]

\* throw new Error(msg)
Throw(st, msg) == [st EXCEPT !.status = "error", !.err = msg]

NewEnv(st, parent) == [st EXCEPT !.envs = Append(@, Environment(parent))]

\* Environment.define
EnvDefine(st, env, name, value) ==
    onEvent([st EXCEPT !.envs[env].values = ObjPut(@, name, value)],
            [type |-> "DECLARE", scopeId |-> env, name |-> name, value |-> value,
             moved |-> FALSE])

\* name in this.values: own and inherited properties
InValues(values, name) == ObjHas(values, name) \/ name \in ObjectPrototype

\* Environment.resolveScope: the environment of the chain that holds the
\* name, 0 for null
RECURSIVE resolveScope(_, _, _)
resolveScope(st, env, name) ==
    IF env = 0 THEN 0
    ELSE IF InValues(st.envs[env].values, name) THEN env
    ELSE resolveScope(st, st.envs[env].parent, name)

\* Environment.assign
EnvAssign(st, env, name, value) ==
    LET owner == resolveScope(st, env, name)
    IN  IF owner = 0 THEN Throw(st, "Runtime Error: Undefined variable " \o name)
        ELSE onEvent([st EXCEPT !.envs[owner].values = ObjPut(@, name, value)],
                     [type |-> "UPDATE", scopeId |-> owner, name |-> name,
                      value |-> value, moved |-> FALSE])

\* Environment.lookup; an inherited name yields the function of
\* Object.prototype
EnvLookup(st, env, name) ==
    LET owner == resolveScope(st, env, name)
    IN  IF owner = 0 THEN Res(VUndef, Throw(st, "Runtime Error: Undefined variable " \o name))
        ELSE IF ObjHas(st.envs[owner].values, name)
        THEN Res(ObjGet(st.envs[owner].values, name), st)
        ELSE Res(VNative(name), st)

\* v[name] for a value that is neither null nor undefined (a closure's
\* params, body and capturedEnv are not values of the language)
Prop(v, name) ==
    CASE v.k = "obj" -> IF ObjHas(v.props, name) THEN ObjGet(v.props, name) ELSE VUndef
      [] v.k = "str" -> IF name = "length" THEN VInt(Len(v.s)) ELSE VUndef
      [] v.k = "array" -> IF name = "length" THEN VInt(Len(v.elems)) ELSE VUndef
      [] v.k = "closure" -> IF name = "type" THEN VStr("Closure") ELSE VUndef
      [] OTHER -> VUndef

\* v[i] of visitIndexExpr on an array or a string
Element(v, i) ==
    IF i.k # "int" THEN VUndef
    ELSE IF v.k = "array"
    THEN IF i.i >= 0 /\ i.i < Len(v.elems) THEN v.elems[i.i + 1] ELSE VUndef
    ELSE IF i.i >= 0 /\ i.i < Len(v.s) THEN VStr(CharAt(v.s, i.i)) ELSE VUndef

\* the environment a function or method body runs under (callFunction)
FunctionEnvParentCaller(st) == st.currentEnv

FunctionEnvParent(st) == st.globalEnv

\* dynamic scoping: the closure body runs under the caller's environment
ClosureEnvParentCaller(closure, st) == st.currentEnv

\* the environment a closure body runs under (callClosure)
ClosureEnvParent(closure, st) == closure.capturedEnv

\* a visitBlock without try/finally: an exception skips the EXIT_SCOPE event
BlockExitOnSuccess(st, blockEnv, prevEnv) ==
    IF st.status = "ok"
    THEN [onEvent(st, [type |-> "EXIT_SCOPE", scopeId |-> blockEnv])
             EXCEPT !.currentEnv = prevEnv]
    ELSE [st EXCEPT !.currentEnv = prevEnv]

\* a block that leaves its own environment current
BlockExitStay(st, blockEnv, prevEnv) ==
    onEvent(st, [type |-> "EXIT_SCOPE", scopeId |-> blockEnv])

\* the finally clause of visitBlock
BlockExit(st, blockEnv, prevEnv) ==
    [onEvent(st, [type |-> "EXIT_SCOPE", scopeId |-> blockEnv])
        EXCEPT !.currentEnv = prevEnv]

\* params.forEach((p, i) => env.define(p.name, args[i]))
RECURSIVE DefineArgs(_, _, _, _, _)
DefineArgs(st, env, params, args, i) ==
    IF i > Len(params) THEN st
    ELSE DefineArgs(EnvDefine(st, env, params[i].name,
                              IF i <= Len(args) THEN args[i] ELSE VUndef),
                    env, params, args, i + 1)

\* a dispatch that wants the target type to equal the receiver's tag
RECURSIVE I_findInTypesExact(_, _, _, _)
I_findInTypesExact(types, tag, methodName, j) ==
    IF j > Len(types) THEN <<>>
    ELSE LET k == IF types[j][1] = tag
                  THEN FindByName(types[j][2], methodName, 1) ELSE 0
         IN  IF k > 0 THEN <<types[j][2], types[j][2][k]>>
             ELSE I_findInTypesExact(types, tag, methodName, j + 1)

\* the two loops of visitCallExpr over this.impls: trait by trait in the
\* order the traits were first registered, and inside a trait target type by
\* target type; <<methods, method>> of the first hit, <<>> for none
RECURSIVE I_findInTypes(_, _, _, _)
I_findInTypes(types, tag, methodName, j) ==
    IF j > Len(types) THEN <<>>
    ELSE LET k == IF StartsWith(types[j][1], tag)
                  THEN FindByName(types[j][2], methodName, 1) ELSE 0
         IN  IF k > 0 THEN <<types[j][2], types[j][2][k]>>
             ELSE I_findInTypes(types, tag, methodName, j + 1)

RECURSIVE I_findMethod(_, _, _, _)
I_findMethod(impls, tag, methodName, i) ==
    IF i > Len(impls) THEN <<>>
    ELSE LET hit == I_findInTypes(impls[i][2], tag, methodName, 1)
         IN  IF hit # <<>> THEN hit
             ELSE I_findMethod(impls, tag, methodName, i + 1)

\* the registration loop of visitProgram for one top-level statement
I_register(st, stmt) ==
    IF stmt.type \in {"FunctionDef", "ExternFn"}
    THEN [st EXCEPT !.functions = ObjPut(@, stmt.name, stmt)]
    ELSE IF stmt.type = "ImplBlock"
    THEN LET types == IF ObjHas(st.impls, stmt.traitName)
                      THEN ObjGet(st.impls, stmt.traitName) ELSE <<>>
         IN  [st EXCEPT !.impls = ObjPut(@, stmt.traitName,
                                         ObjPut(types, stmt.targetType, stmt.methods))]
    ELSE st

I_registerNone(st, body) == st

RECURSIVE I_registerAll(_, _)
I_registerAll(st, body) ==
    IF Len(body) = 0 THEN st
    ELSE I_registerAll(I_register(st, Head(body)), Tail(body))

(***************************************************************************)
(* Interpreter visits                                                      *)
(***************************************************************************)
RECURSIVE I_visit(_, _)
RECURSIVE I_visitList(_, _, _)
RECURSIVE I_visitStmts(_, _, _)
RECURSIVE I_visitFields(_, _, _)
RECURSIVE I_while(_, _)
RECURSIVE I_forItems(_, _, _)
RECURSIVE I_matchCases(_, _, _)
RECURSIVE callFunction(_, _, _, _, _, _)
RECURSIVE callClosure(_, _, _)

\* nodes.map(n => this.visit(n)): the values <<v1, ..>> so far and the state
I_visitList(nodes, vs, st) ==
    IF Len(nodes) = 0 \/ st.status # "ok" THEN Res(vs, st)
    ELSE LET r == I_visit(Head(nodes), st)
         IN  I_visitList(Tail(nodes), Append(vs, r.v), r.st)

\* for (const stmt of statements) result = this.visit(stmt)
I_visitStmts(stmts, result, st) ==
    IF Len(stmts) = 0 \/ st.status # "ok" THEN Res(result, st)
    ELSE LET r == I_visit(Head(stmts), st)
         IN  I_visitStmts(Tail(stmts), r.v, r.st)

\* node.fields.forEach(f => instance[f.name] = this.visit(f.value))
I_visitFields(fields, props, st) ==
    IF Len(fields) = 0 \/ st.status # "ok" THEN Res(props, st)
    ELSE LET r == I_visit(Head(fields).value, st)
         IN  I_visitFields(Tail(fields), ObjPut(props, Head(fields).name, r.v), r.st)

I_visitStructInit(node, st) ==
    LET r == I_visitFields(node.fields, << <<"_type", VStr(node.structName)>> >>, st)
    IN  Res(VObj(r.st.nextRef, r.v), [r.st EXCEPT !.nextRef = @ + 1])

\* the payload is evaluated for Some, Ok and Err only; node.fields is not read
I_visitEnumVariant(node, st) ==
    LET r == IF node.variant \in {"Some", "Ok", "Err"} THEN I_visit(node.value, st)
             ELSE Res(VNull, st)
    IN  Res(VObj(r.st.nextRef,
                 << <<"enumType", VStr(node.enumType)>>, <<"variant", VStr(node.variant)>>,
                    <<"value", r.v>> >>),
            [r.st EXCEPT !.nextRef = @ + 1])

I_visitMemberAccess(node, st) ==
    LET o == I_visit(node.object, st)
    IN  IF o.st.status # "ok" THEN Res(VUndef, o.st)
        ELSE IF o.v.k \in {"null", "undefined"}
        THEN Res(VUndef, Throw(o.st, "TypeError: Cannot read properties of " \o ToStr(o.v)))
        ELSE Res(Prop(o.v, node.field), o.st)

I_visitLambdaExpr(node, st) ==
    Res(VClosure(st.nextRef, node.params, node.body, st.currentEnv),
        [st EXCEPT !.nextRef = @ + 1])

I_visitVarDecl(node, st) ==
    LET r == IF node.initializer.type = "Null" THEN Res(VNull, st)
             ELSE I_visit(node.initializer, st)
    IN  IF r.st.status # "ok" THEN Res(VUndef, r.st)
        ELSE Res(VUndef, EnvDefine(r.st, r.st.currentEnv, node.name, r.v))

I_visitAssignment(node, st) ==
    LET r == I_visit(node.value, st)
    IN  IF r.st.status # "ok" THEN Res(VUndef, r.st)
        ELSE Res(VUndef, EnvAssign(r.st, r.st.currentEnv, node.name, r.v))

I_visitBlock(node, st) ==
    LET prevEnv == st.currentEnv
        blockEnv == Len(st.envs) + 1
        st1 == [NewEnv(st, prevEnv) EXCEPT !.currentEnv = blockEnv]
        st2 == onEvent(st1, [type |-> "ENTER_SCOPE", scopeId |-> blockEnv,
                             parentScopeId |-> prevEnv])
        r == I_visitStmts(node.statements, VNull, st2)
    IN  Res(IF r.st.status = "ok" THEN r.v ELSE VUndef, BlockExit(r.st, blockEnv, prevEnv))

I_while(node, st) ==
    LET c == I_visit(node.condition, st)
    IN  IF c.st.status # "ok" \/ ~JSTruthy(c.v) THEN Res(VUndef, c.st)
        ELSE LET b == I_visit(node.body, c.st)
             IN  IF b.st.status # "ok" THEN Res(VUndef, b.st) ELSE I_while(node, b.st)

\* the items a for loop draws from an array or a string
RECURSIVE Chars(_)
Chars(s) == IF Len(s) = 0 THEN <<>> ELSE <<VStr(CharAt(s, 0))>> \o Chars(SubSeq(s, 2, Len(s)))

\* the body of the for..of loop of visitForStmt; an exception leaves the
\* loop with the item environment still current
I_forItems(node, items, st) ==
    IF Len(items) = 0 THEN Res(VUndef, st)
    ELSE LET itemEnv == Len(st.envs) + 1
             st1 == [NewEnv(st, st.currentEnv) EXCEPT !.currentEnv = itemEnv]
             st2 == EnvDefine(st1, itemEnv, node.item, Head(items))
             b == I_visit(node.body, st2)
         IN  IF b.st.status # "ok" THEN Res(VUndef, b.st)
             ELSE I_forItems(node, Tail(items),
                             [b.st EXCEPT !.currentEnv = b.st.envs[b.st.currentEnv].parent])

I_visitForStmt(node, st) ==
    LET it == I_visit(node.iterator, st)
    IN  IF it.st.status # "ok" THEN Res(VUndef, it.st)
        ELSE IF ~JSTruthy(it.v) \/ it.v.k \notin {"array", "str"}
        THEN Res(VUndef, Throw(it.st, "Runtime: Object is not iterable"))
        ELSE I_forItems(node, IF it.v.k = "array" THEN it.v.elems ELSE Chars(it.v.s), it.st)

\* fields.forEach(field => currentEnv.define(field, subjectValue[field]))
RECURSIVE BindFields(_, _, _)
BindFields(st, fields, subjectValue) ==
    IF Len(fields) = 0 THEN st
    ELSE BindFields(EnvDefine(st, st.currentEnv, Head(fields),
                              Prop(subjectValue, Head(fields))),
                    Tail(fields), subjectValue)

I_matchCases(cases, subjectValue, st) ==
    IF Len(cases) = 0 \/ st.status # "ok" THEN Res(VUndef, st)
    ELSE LET c == Head(cases)
         IN  IF c.pattern.type = "Wildcard" THEN I_visit(c.body, st)
             ELSE IF c.pattern.type = "EnumPattern"
             THEN IF JSTruthy(subjectValue)
                     /\ StrictEq(Prop(subjectValue, "variant"), VStr(c.pattern.variant))
                  THEN I_visit(c.body, BindFields(st, c.pattern.fields, subjectValue))
                  ELSE I_matchCases(Tail(cases), subjectValue, st)
             ELSE LET p == I_visit(c.pattern, st)
                  IN  IF p.st.status = "ok" /\ StrictEq(subjectValue, p.v)
                      THEN I_visit(c.body, p.st)
                      ELSE I_matchCases(Tail(cases), subjectValue, p.st)

I_visitMatchStmt(node, st) ==
    LET s == I_visit(node.subject, st)
    IN  I_matchCases(node.cases, s.v, s.st)

\* visitArrayLiteral and visitTupleLiteral
I_visitArrayLiteral(node, st) ==
    LET r == I_visitList(node.elements, <<>>, st)
    IN  Res(VArray(r.st.nextRef, r.v), [r.st EXCEPT !.nextRef = @ + 1])

I_visitIndexExpr(node, st) ==
    LET o == I_visit(node.object, st)
        i == I_visit(node.index, o.st)
    IN  IF i.st.status # "ok" THEN Res(VUndef, i.st)
        ELSE IF o.v.k \in {"array", "str"} THEN Res(Element(o.v, i.v), i.st)
        ELSE Res(VUndef, Throw(i.st, "Runtime: Cannot index non-array/string"))

RECURSIVE DefineElements(_, _, _, _)
DefineElements(st, names, elems, i) ==
    IF i > Len(names) THEN st
    ELSE DefineElements(EnvDefine(st, st.currentEnv, names[i],
                                  IF i <= Len(elems) THEN elems[i] ELSE VUndef),
                        names, elems, i + 1)

I_visitDestructuringAssign(node, st) ==
    LET r == I_visit(node.initializer, st)
    IN  IF r.st.status # "ok" THEN Res(VUndef, r.st)
        ELSE IF r.v.k # "array"
        THEN Res(VUndef, Throw(r.st, "Runtime: Destructuring requires Tuple/Array"))
        ELSE Res(VUndef, DefineElements(r.st, node.names, r.v.elems, 1))

I_visitIfStmt(node, st) ==
    LET c == I_visit(node.condition, st)
    IN  IF c.st.status # "ok" THEN Res(VUndef, c.st)
        ELSE IF JSTruthy(c.v) THEN I_visit(node.thenBranch, c.st)
        ELSE I_visit(node.elseBranch, c.st)

\* a return that drops its payload
I_visitReturnStmtBare(node, st) ==
    Res(VUndef, [st EXCEPT !.status = "return", !.ret = VNull])

\* throw new ReturnException(value)
I_visitReturnStmt(node, st) ==
    LET r == IF node.value.type = "Null" THEN Res(VNull, st) ELSE I_visit(node.value, st)
    IN  IF r.st.status # "ok" THEN Res(VUndef, r.st)
        ELSE Res(VUndef, [r.st EXCEPT !.status = "return", !.ret = r.v])

I_visitBinaryExpr(node, st) ==
    LET l == I_visit(node.left, st)
        r == I_visit(node.right, l.st)
    IN  IF r.st.status # "ok" THEN Res(VUndef, r.st)
        ELSE Res(BinaryOp(node.operator, l.v, r.v), r.st)

I_visitIdentifier(node, st) ==
    LET r == EnvLookup(st, st.currentEnv, node.name)
    IN  IF r.st.status # "ok" \/ IsPrimitiveValue(r.v) THEN r
        ELSE Res(r.v, onEvent(st, [type |-> "MOVE",
                                   scopeId |-> resolveScope(st, st.currentEnv, node.name),
                                   name |-> node.name, value |-> r.v, moved |-> TRUE]))

\* Array.from({ length: n }, (_, i) => i)
RECURSIVE RangeElems(_)
RangeElems(n) == IF n <= 0 THEN <<>> ELSE Append(RangeElems(n - 1), VInt(n - 1))

\* the ExternFn branch of callFunction: a host function of that name is
\* called when the host has one; without one a browser page has no `global`
\* to look at, and Node falls through to the alert line
callExtern(name, args, st) ==
    IF st.host = "browser"
    THEN IF name = "alert"
         THEN Res(VUndef, [st EXCEPT !.hostCalls = Append(@, <<name, args>>)])
         ELSE Res(VUndef, Throw(st, "ReferenceError: global is not defined"))
    ELSE IF name = "alert"
    THEN Res(VUndef, onOutput(st, "[ALERT] "
                                  \o ToStr(IF Len(args) > 0 THEN args[1] ELSE VUndef)))
    ELSE Res(VNull, st)

\* callFunction(name, args, methodList = null, thisObj = null); hasList tells
\* a method list from null
callFunction(name, args, hasList, methodList, thisObj, st) ==
    LET arg0 == IF Len(args) > 0 THEN args[1] ELSE VUndef
    IN  CASE name = "print" -> Res(VUndef, onOutput(st, ToStr(arg0)))
          [] name = "len" ->
                Res(IF arg0.k = "array" THEN VInt(Len(arg0.elems))
                    ELSE IF arg0.k = "str" THEN VInt(Len(arg0.s)) ELSE VInt(0), st)
          [] name = "range" ->
                Res(VArray(st.nextRef,
                           RangeElems(IF ToNum(arg0) = <<>> THEN 0 ELSE ToNum(arg0)[1])),
                    [st EXCEPT !.nextRef = @ + 1])
          [] name = "to_string" -> Res(VStr(ToStr(arg0)), st)
          [] name = "to_int" -> Res(NumValue(ToNum(arg0)), st)
          [] OTHER ->
                LET k == IF hasList THEN FindByName(methodList, name, 1)
                         ELSE ObjIndex(st.functions, name, 1)
                    funcDef == IF hasList THEN methodList[k] ELSE st.functions[k][2]
                    prevEnv == st.currentEnv
                    functionEnv == Len(st.envs) + 1
                    st1 == DefineArgs(NewEnv(st, FunctionEnvParent(st)), functionEnv,
                                      funcDef.params, args, 1)
                    st2 == IF JSTruthy(thisObj)
                           THEN EnvDefine(st1, functionEnv, "this", thisObj) ELSE st1
                    r == I_visit(funcDef.body, [st2 EXCEPT !.currentEnv = functionEnv])
                IN  IF k = 0
                    THEN Res(VUndef, Throw(st, "Runtime Error: Undefined function " \o name))
                    ELSE IF funcDef.type = "ExternFn" THEN callExtern(name, args, st)
                    ELSE IF r.st.status = "error" THEN Res(VUndef, r.st)
                    ELSE IF r.st.status = "return"
                    THEN Res(r.st.ret, [r.st EXCEPT !.status = "ok", !.ret = VNull,
                                                    !.currentEnv = prevEnv])
                    ELSE Res(r.v, [r.st EXCEPT !.currentEnv = prevEnv])

callClosure(closure, args, st) ==
    IF Len(closure.params) # Len(args)
    THEN Res(VUndef, Throw(st, "Closure expects " \o IntToStr(Len(closure.params))
                               \o " arguments, got " \o IntToStr(Len(args))))
    ELSE LET prevEnv == st.currentEnv
             closureEnv == Len(st.envs) + 1
             st1 == DefineArgs(NewEnv(st, ClosureEnvParent(closure, st)), closureEnv,
                               closure.params, args, 1)
             st2 == [st1 EXCEPT !.currentEnv = closureEnv]
             r == IF closure.body.type = "Block"
                  THEN I_visitStmts(closure.body.statements, VNull, st2)
                  ELSE I_visit(closure.body, st2)
         IN  IF r.st.status = "error" THEN Res(VUndef, [r.st EXCEPT !.currentEnv = prevEnv])
             ELSE IF r.st.status = "return"
             THEN Res(r.st.ret, [r.st EXCEPT !.status = "ok", !.ret = VNull,
                                             !.currentEnv = prevEnv])
             ELSE Res(r.v, [r.st EXCEPT !.currentEnv = prevEnv])

\* try { ... return this.callClosure(val, args) } catch (e) { }: an Error the
\* closure call throws is dropped, and the call goes on to callFunction
closureOrFunction(c, name, args) ==
    IF c.st.status = "error"
    THEN callFunction(name, args, FALSE, <<>>, VNull, [c.st EXCEPT !.status = "ok", !.err = ""])
    ELSE c

I_visitCallExpr(node, st) ==
    IF node.callee.type = "String" /\ node.callee.name = "print"
    THEN LET args == I_visitList(node.args, <<>>, st)
         IN  IF args.st.status # "ok" THEN Res(VUndef, args.st)
             ELSE Res(VNull, onOutput(args.st, JoinValues(args.v, " ")))
    ELSE IF node.callee.type = "MemberAccess"
    THEN LET o == I_visit(node.callee.object, st)
             methodName == node.callee.field
             tag == ToStr(Prop(o.v, "_type"))
             hit == I_findMethod(o.st.impls, tag, methodName, 1)
             args == I_visitList(node.args, <<>>, o.st)
         IN  IF o.st.status # "ok" THEN Res(VUndef, o.st)
             ELSE IF o.v.k \in {"null", "undefined"} /\ Len(o.st.impls) > 0
             THEN Res(VUndef, Throw(o.st, "TypeError: Cannot read properties of "
                                          \o ToStr(o.v)))
             ELSE IF hit = <<>>
             THEN Res(VUndef, Throw(o.st, "Runtime Error: Method '" \o methodName
                                          \o "' not found for " \o tag))
             ELSE IF args.st.status # "ok" THEN Res(VUndef, args.st)
             ELSE callFunction(hit[2].name, args.v, TRUE, hit[1], o.v, args.st)
    ELSE LET args == I_visitList(node.args, <<>>, st)
             owner == resolveScope(args.st, args.st.currentEnv, node.callee.name)
             val == ObjGet(args.st.envs[owner].values, node.callee.name)
         IN  IF args.st.status # "ok" THEN Res(VUndef, args.st)
             ELSE IF owner # 0 /\ val.k = "closure"
             THEN closureOrFunction(callClosure(val, args.v, args.st), node.callee.name,
                                    args.v)
             ELSE callFunction(node.callee.name, args.v, FALSE, <<>>, VNull, args.st)

\* Interpreter.visit: dispatch on node.type; a null node, a definition and a
\* node type without a visit method evaluate to undefined
I_visit(node, st) ==
    IF st.status # "ok" THEN Res(VUndef, st)
    ELSE CASE node.type = "ExpressionStatement" -> I_visit(node.expression, st)
           [] node.type = "StructInit" -> I_visitStructInit(node, st)
           [] node.type = "EnumVariant" -> I_visitEnumVariant(node, st)
           [] node.type = "MemberAccess" -> I_visitMemberAccess(node, st)
           [] node.type = "LambdaExpr" -> I_visitLambdaExpr(node, st)
           [] node.type = "VarDecl" -> I_visitVarDecl(node, st)
           [] node.type = "Assignment" -> I_visitAssignment(node, st)
           [] node.type = "CallExpr" -> I_visitCallExpr(node, st)
           [] node.type = "Block" -> I_visitBlock(node, st)
           [] node.type = "WhileStmt" -> I_while(node, st)
           [] node.type = "MatchStmt" -> I_visitMatchStmt(node, st)
           [] node.type \in {"ArrayLiteral", "TupleLiteral"} -> I_visitArrayLiteral(node, st)
           [] node.type = "IndexExpr" -> I_visitIndexExpr(node, st)
           [] node.type = "ForStmt" -> I_visitForStmt(node, st)
           [] node.type = "DestructuringAssign" -> I_visitDestructuringAssign(node, st)
           [] node.type = "IfStmt" -> I_visitIfStmt(node, st)
           [] node.type = "ReturnStmt" -> I_visitReturnStmt(node, st)
           [] node.type = "BinaryExpr" -> I_visitBinaryExpr(node, st)
           [] node.type = "Literal" -> Res(LiteralValue(node), st)
           [] node.type = "Identifier" -> I_visitIdentifier(node, st)
           [] node.type = "Wildcard" -> Res(VNull, st)
           [] OTHER -> Res(VUndef, st)

(***************************************************************************)
(* Programs: the ASTs the pipeline is run on                               *)
(***************************************************************************)
\* print(e) as a statement
PrintStmt(e) == ExpressionStatement(CallExpr("print", <<e>>))

\* fn name() -> str: return "text"
TextMethod(name, text) == FunctionDef(name, <<>>, "str", Block(<<ReturnStmt(StrLit(text))>>))

\* the definitions every program starts with
Prelude ==
    << StructDef("U", "", <<Param("name", "str")>>),
       StructDef("W", "", <<Param("inner", "U")>>),
       StructDef("P", "T", <<Param("x", "T")>>),
       StructDef("P2", "T", <<Param("v", "T")>>),
       StructDef("Q", "", <<Param("n", "int")>>),
       StructDef("Box", "T", <<Param("v", "T")>>),
       StructDef("Tagged", "T", <<Param("v", "T"), Param("n", "int")>>),
       EnumDef("State", << [name |-> "Idle", fields |-> <<>>],
                           [name |-> "Stopped", fields |-> <<Param("reason", "str")>>] >>),
       TraitDef("Show", <<[name |-> "desc", returnType |-> "str"]>>),
       TraitDef("A", <<[name |-> "m", returnType |-> "str"]>>),
       TraitDef("B", <<[name |-> "m", returnType |-> "str"]>>),
       ImplBlock("Show", "P<int>",
                 << FunctionDef("desc", <<>>, "str",
                        Block(<<ReturnStmt(BinaryExpr("+", StrLit("x="),
                                    CallExpr("to_string",
                                             <<MemberAccess(Identifier("this"), "x")>>)))>>)),
                    FunctionDef("eat", <<Param("u", "U")>>, "void", Block(<<>>)),
                    FunctionDef("len", <<>>, "int", Block(<<ReturnStmt(IntLit(7))>>)) >>),
       ImplBlock("A", "Q", <<TextMethod("m", "A-q")>>),
       ImplBlock("B", "P2<int>", <<TextMethod("m", "B-int")>>),
       ImplBlock("A", "P2<str>", <<TextMethod("m", "A-str")>>),
       ImplBlock("B", "P<int>", <<TextMethod("m", "B-p")>>),
       FunctionDef("take", <<Param("u", "U")>>, "void", Block(<<>>)) >>

\* the bindings every program declares before its own statements
Setup ==
    << VarDecl("a", "U", FALSE, StructInit("U", <<FieldInit("name", StrLit("x"))>>)),
       VarDecl("p", "P<int>", FALSE, StructInit("P", <<FieldInit("x", IntLit(7))>>)),
       VarDecl("q", "P2<str>", FALSE, StructInit("P2", <<FieldInit("v", StrLit("s"))>>)),
       VarDecl("f", "", FALSE,
               LambdaExpr(<<Param("u", "any")>>, Block(<<ReturnStmt(Identifier("u"))>>))),
       VarDecl("start", "int", FALSE, IntLit(10)),
       VarDecl("adder", "", FALSE,
               LambdaExpr(<<Param("x", "any")>>,
                          Block(<<ReturnStmt(BinaryExpr("+", Identifier("x"),
                                                        Identifier("start")))>>))),
       VarDecl("s", "State", FALSE,
               EnumStructVariant("State", "Stopped", <<FieldInit("reason", StrLit("Done"))>>)),
       VarDecl("c", "int", TRUE, IntLit(0)) >>

\* the statements a program is made of, by name
Stmt ==
    [ \* moves and reads of the struct binding a
      moveA |-> VarDecl("b", "U", FALSE, Identifier("a")),
      readField |-> PrintStmt(MemberAccess(Identifier("a"), "name")),
      printA |-> PrintStmt(Identifier("a")),
      methodArg |-> ExpressionStatement(MethodCall(Identifier("p"), "eat", <<Identifier("a")>>)),
      closureArg |-> ExpressionStatement(CallExpr("f", <<Identifier("a")>>)),
      structField |-> VarDecl("w", "W", FALSE,
                              StructInit("W", <<FieldInit("inner", Identifier("a"))>>)),
      takeA |-> ExpressionStatement(CallExpr("take", <<Identifier("a")>>)),
      \* control flow, assignment and run-time failures
      alertCall |-> ExpressionStatement(CallExpr("alert", <<StrLit("x")>>)),
      topReturn |-> ReturnStmt(Null),
      blockReturn |-> IfStmt(BoolLit(TRUE), Block(<<ReturnStmt(Null)>>), Null),
      blockError |-> IfStmt(BoolLit(TRUE),
                            Block(<<ExpressionStatement(CallExpr("nope", <<>>))>>), Null),
      assignC |-> Assignment("c", BinaryExpr("+", Identifier("c"), IntLit(1))),
      forRange |-> ForStmt("i", CallExpr("range", <<IntLit(2)>>),
                           Block(<<Assignment("c", BinaryExpr("+", Identifier("c"),
                                                              Identifier("i")))>>)),
      whileC |-> WhileStmt(BinaryExpr("<", Identifier("c"), IntLit(2)),
                           Block(<<Assignment("c", BinaryExpr("+", Identifier("c"),
                                                              IntLit(1)))>>)),
      matchS |-> MatchStmt(Identifier("s"),
                   << MatchCase(EnumPattern("State", "Stopped", <<"reason">>),
                                PrintStmt(BinaryExpr("+", StrLit("Stopped: "),
                                                     Identifier("reason")))),
                      MatchCase(EnumPattern("State", "Idle", <<>>),
                                PrintStmt(StrLit("Idle"))) >>),
      \* closures and method dispatch
      printAdder |-> PrintStmt(CallExpr("to_string", <<CallExpr("adder", <<IntLit(5)>>)>>)),
      shadowAdder |-> IfStmt(BoolLit(TRUE),
                             Block(<< VarDecl("start", "int", FALSE, IntLit(100)),
                                      PrintStmt(CallExpr("adder", <<IntLit(5)>>)) >>), Null),
      descCall |-> PrintStmt(MethodCall(Identifier("p"), "desc", <<>>)),
      callM |-> PrintStmt(MethodCall(Identifier("q"), "m", <<>>)),
      callMissing |-> ExpressionStatement(MethodCall(Identifier("p"), "nope", <<>>)),
      skipCall |-> PrintStmt(MethodCall(Identifier("p"), "m", <<>>)),
      lenCall |-> PrintStmt(MethodCall(Identifier("p"), "len", <<>>)),
      \* typing
      tooManyArgs |-> ExpressionStatement(CallExpr("to_string", <<IntLit(1), IntLit(2)>>)),
      forEnum |-> ForStmt("e", EnumUnitVariant("State", "Idle"),
                          Block(<<PrintStmt(StrLit("item"))>>)),
      indexEnum |-> PrintStmt(IndexExpr(EnumUnitVariant("State", "Idle"), IntLit(0))),
      destructEnum |-> DestructuringAssign(<<"m", "n">>, EnumUnitVariant("State", "Idle"), FALSE),
      memberEnum |-> PrintStmt(MemberAccess(EnumUnitVariant("State", "Idle"), "f")),
      concatDecl |-> VarDecl("t", "str", FALSE, BinaryExpr("+", StrLit("Total: "), IntLit(10))),
      printT |-> PrintStmt(Identifier("t")),
      plusMismatch |-> VarDecl("z", "int", FALSE, BinaryExpr("+", IntLit(1), BoolLit(TRUE))),
      minusMismatch |-> VarDecl("y", "str", FALSE, BinaryExpr("-", StrLit("a"), IntLit(1))),
      \* generic structs
      boxDecl |-> VarDecl("bx", "Box<str>", FALSE,
                          StructInit("Box", <<FieldInit("v", StrLit("x"))>>)),
      boxField |-> VarDecl("t", "str", FALSE, MemberAccess(Identifier("bx"), "v")),
      boxFieldInt |-> VarDecl("k", "int", FALSE, MemberAccess(Identifier("bx"), "v")),
      nestField |-> VarDecl("e", "Box<str>", FALSE,
                            MemberAccess(StructInit("Box", <<FieldInit("v", Identifier("bx"))>>),
                                         "v")),
      tagDecl |-> VarDecl("g", "Tagged<str>", FALSE,
                          StructInit("Tagged", <<FieldInit("v", StrLit("x")),
                                                 FieldInit("n", IntLit(1))>>)),
      tagField |-> VarDecl("k", "int", FALSE, MemberAccess(Identifier("g"), "n")),
      \* uses of bindings of primitive type
      primInit |-> VarDecl("k", "int", FALSE, Identifier("start")),
      primAssign |-> Assignment("c", Identifier("start")),
      primArg |-> ExpressionStatement(CallExpr("to_string", <<Identifier("start")>>)),
      primField |-> VarDecl("g", "Q", FALSE,
                            StructInit("Q", <<FieldInit("n", Identifier("start"))>>)),
      primMatch |-> MatchStmt(Identifier("start"),
                              <<MatchCase(Wildcard, PrintStmt(StrLit("any")))>>),
      primRead |-> PrintStmt(Identifier("start")),
      primBlock |-> IfStmt(BoolLit(TRUE),
                           Block(<< VarDecl("w", "str", FALSE, StrLit("x")),
                                    VarDecl("v", "bool", FALSE, BoolLit(TRUE)),
                                    VarDecl("w2", "str", FALSE, Identifier("w")),
                                    VarDecl("v2", "bool", FALSE, Identifier("v")),
                                    PrintStmt(Identifier("w")),
                                    PrintStmt(Identifier("v")) >>), Null),
      \* top-level statements and statements of main that show their order
      sayOne |-> PrintStmt(StrLit("one")),
      callLate |-> PrintStmt(CallExpr("late", <<>>)),
      declX |-> VarDecl("dx", "int", FALSE, IntLit(1)),
      sayAfter |-> PrintStmt(StrLit("after")),
      sayMain |-> PrintStmt(StrLit("main")),
      declY |-> VarDecl("dy", "int", FALSE, IntLit(2)),
      \* calls of a function and of a method that read the global start, from
      \* the caller's own environment and from a block that shadows start
      callTop |-> PrintStmt(CallExpr("readStart", <<>>)),
      callShadow |-> IfStmt(BoolLit(TRUE),
                            Block(<< VarDecl("start", "int", FALSE, IntLit(100)),
                                     PrintStmt(CallExpr("readStart", <<>>)) >>), Null),
      methodTop |-> PrintStmt(MethodCall(Identifier("r"), "peek", <<>>)),
      methodShadow |-> IfStmt(BoolLit(TRUE),
                              Block(<< VarDecl("start", "int", FALSE, IntLit(100)),
                                       PrintStmt(MethodCall(Identifier("r"), "peek", <<>>)) >>),
                              Null),
      \* assignments to n and declarations of n, at the level of the global n
      \* and in a block; assignments to names nothing declares
      setN |-> Assignment("n", IntLit(2)),
      shadowSet |-> IfStmt(BoolLit(TRUE),
                           Block(<< VarDecl("n", "int", TRUE, IntLit(10)),
                                    Assignment("n", IntLit(11)) >>), Null),
      blockSet |-> IfStmt(BoolLit(TRUE), Block(<<Assignment("n", IntLit(3))>>), Null),
      redeclare |-> IfStmt(BoolLit(TRUE),
                           Block(<<VarDecl("n", "int", FALSE, IntLit(5))>>), Null),
      setMissing |-> Assignment("zz", IntLit(1)),
      setProto |-> Assignment("toString", IntLit(1)),
      \* a binding named like the field a pattern of matchS destructures, a
      \* match whose second arm reads the name the first arm's pattern binds,
      \* and uses of the name after a match
      declReason |-> VarDecl("reason", "int", TRUE, IntLit(1)),
      matchOther |-> MatchStmt(Identifier("s"),
                       << MatchCase(EnumPattern("State", "Stopped", <<"reason">>),
                                    Block(<<PrintStmt(StrLit("stopped"))>>)),
                          MatchCase(EnumPattern("State", "Idle", <<>>),
                                    Block(<<PrintStmt(Identifier("reason"))>>)) >>),
      printReason |-> PrintStmt(Identifier("reason")),
      setReason |-> Assignment("reason", IntLit(2)),
      \* uses of the struct binding p that do not consume it, and its move
      readX |-> PrintStmt(MemberAccess(Identifier("p"), "x")),
      printP |-> PrintStmt(Identifier("p")),
      usesP |-> IfStmt(BoolLit(TRUE),
                       Block(<< ExpressionStatement(MethodCall(Identifier("p"), "desc", <<>>)),
                                VarDecl("k", "int", FALSE, MemberAccess(Identifier("p"), "x")),
                                PrintStmt(Identifier("p")),
                                PrintStmt(MethodCall(Identifier("p"), "desc", <<>>)),
                                PrintStmt(MemberAccess(Identifier("p"), "x")),
                                PrintStmt(Identifier("p")) >>), Null),
      moveP |-> VarDecl("b", "P<int>", FALSE, Identifier("p")),
      \* assignments to a let mut binding, to bindings that are not let mut,
      \* to a moved binding, and from a block to a global let mut valueOf
      setM |-> Assignment("m", IntLit(2)),
      setBad |-> IfStmt(BoolLit(TRUE),
                        Block(<< Assignment("k", IntLit(2)),
                                 Assignment("m", StrLit("s")),
                                 Assignment("zz", IntLit(1)) >>), Null),
      moveV |-> VarDecl("w", "V", FALSE, Identifier("v")),
      setV |-> Assignment("v", StructInit("V", <<FieldInit("n", IntLit(2))>>)),
      binders |-> IfStmt(BoolLit(TRUE),
                         Block(<< ForStmt("i", ArrayLiteral(<<IntLit(1)>>),
                                          Block(<<Assignment("i", IntLit(3))>>)),
                                  VarDecl("h", "", FALSE,
                                          LambdaExpr(<<Param("z", "int")>>,
                                                     Block(<<Assignment("z", IntLit(1))>>)))
                               >>), Null),
      \* a in the moving positions: assignment right-hand side, match
      \* subject, field of the generic struct Box<T>
      assignA |-> IfStmt(BoolLit(TRUE),
                         Block(<< VarDecl("t", "U", TRUE,
                                          StructInit("U", <<FieldInit("name", StrLit("t"))>>)),
                                  Assignment("t", Identifier("a")) >>), Null),
      matchA |-> MatchStmt(Identifier("a"),
                           <<MatchCase(Wildcard, Block(<<PrintStmt(StrLit("any"))>>))>>),
      boxA |-> VarDecl("bb", "Box<U>", FALSE,
                       StructInit("Box", <<FieldInit("v", Identifier("a"))>>)),
      \* m() on a P<int> and on a P2<int> receiver
      callPM |-> PrintStmt(MethodCall(Identifier("p"), "m", <<>>)),
      callInt |-> IfStmt(BoolLit(TRUE),
                         Block(<< VarDecl("r2", "P2<int>", FALSE,
                                          StructInit("P2", <<FieldInit("v", IntLit(1))>>)),
                                  PrintStmt(MethodCall(Identifier("r2"), "m", <<>>)) >>),
                         Null),
      \* a block that declares a marker before and after an inner block, a
      \* for loop, a function call, a method call and a closure call; and
      \* reads of a block's, a loop's and a callee's binding afterwards
      envProbe |-> IfStmt(BoolLit(TRUE),
                          Block(<< VarDecl("m0", "int", FALSE, IntLit(0)),
                                   IfStmt(BoolLit(TRUE),
                                          Block(<<VarDecl("inner", "int", FALSE, IntLit(2))>>),
                                          Null),
                                   VarDecl("m1", "int", FALSE, IntLit(1)),
                                   ForStmt("it", ArrayLiteral(<<IntLit(1), IntLit(2)>>),
                                           Block(<<VarDecl("loc", "int", FALSE,
                                                           Identifier("it"))>>)),
                                   VarDecl("m2", "int", FALSE, IntLit(2)),
                                   ExpressionStatement(CallExpr("take", <<Identifier("a")>>)),
                                   VarDecl("m3", "int", FALSE, IntLit(3)),
                                   VarDecl("m4", "int", FALSE,
                                           MethodCall(Identifier("p"), "len", <<>>)),
                                   VarDecl("m5", "int", FALSE,
                                           CallExpr("adder", <<IntLit(1)>>)) >>), Null),
      seeInner |-> IfStmt(BoolLit(TRUE),
                          Block(<< IfStmt(BoolLit(TRUE),
                                          Block(<<VarDecl("inner", "int", FALSE, IntLit(2))>>),
                                          Null),
                                   PrintStmt(Identifier("inner")) >>), Null),
      seeItem |-> IfStmt(BoolLit(TRUE),
                         Block(<< ForStmt("it", ArrayLiteral(<<IntLit(1)>>),
                                          Block(<<PrintStmt(Identifier("it"))>>)),
                                  PrintStmt(Identifier("it")) >>), Null),
      seeParam |-> IfStmt(BoolLit(TRUE),
                          Block(<< ExpressionStatement(CallExpr("take", <<Identifier("a")>>)),
                                   PrintStmt(Identifier("u")) >>), Null),
      blockProto |-> IfStmt(BoolLit(TRUE),
                            Block(<<Assignment("valueOf", IntLit(2))>>), Null) ]

\* a program draws its statements from one of these groups
Groups ==
    { {"moveA", "readField", "printA", "methodArg", "closureArg", "structField", "takeA"},
      {"alertCall", "topReturn", "blockReturn", "blockError", "assignC", "forRange",
       "whileC", "matchS"},
      {"printAdder", "shadowAdder", "descCall", "callM", "callMissing", "skipCall",
       "lenCall"},
      {"tooManyArgs", "forEnum", "indexEnum", "destructEnum", "memberEnum", "concatDecl",
       "printT", "plusMismatch", "minusMismatch"},
      {"boxDecl", "boxField", "boxFieldInt", "nestField", "tagDecl", "tagField"},
      {"primInit", "primAssign", "primArg", "primField", "primMatch", "primRead",
       "primBlock"},
      {"declReason", "matchS", "matchOther", "printReason", "setReason"},
      {"descCall", "readX", "printP", "usesP", "moveP"},
      {"moveA", "assignA", "takeA", "matchA", "structField", "boxA"},
      {"callM", "callPM", "callInt"},
      {"envProbe", "seeInner", "seeItem", "seeParam"} }

\* the most statements a program has after Setup
MaxStmts == 2

\* the sequences of up to n statement names of group g
RECURSIVE Picks(_, _)
Picks(g, n) ==
    IF n = 0 THEN {<<>>}
    ELSE Picks(g, n - 1) \cup {Append(ps, k) : ps \in Picks(g, n - 1), k \in g}

RECURSIVE StmtsOf(_)
StmtsOf(ps) == IF Len(ps) = 0 THEN <<>> ELSE <<Stmt[Head(ps)]>> \o StmtsOf(Tail(ps))

\* the program with statements ps, at top level or as the body of fn main()
ProgramOf(ps, inMain) ==
    IF inMain
    THEN Program(Append(Prelude,
                        FunctionDef("main", <<>>, "void", Block(Setup \o StmtsOf(ps)))))
    ELSE Program(Prelude \o Setup \o StmtsOf(ps))

\* fn late() -> str: return "late", defined after the code that calls it
LateDef == FunctionDef("late", <<>>, "str", Block(<<ReturnStmt(StrLit("late"))>>))

\* the top-level statements before the definition of main
OrderGroup == {"sayOne", "callLate", "declX"}

\* no main, or a main with one of two bodies
MainDefs ==
    { <<>>,
      <<FunctionDef("main", <<>>, "void", Block(StmtsOf(<<"sayMain">>)))>>,
      <<FunctionDef("main", <<>>, "void", Block(StmtsOf(<<"declY", "sayMain">>)))>> }

\* programs with statements at top level, before and after the definition of
\* main, and a function defined last
OrderPrograms ==
    {Program(StmtsOf(top) \o mainDef \o StmtsOf(after) \o <<LateDef>>) :
        top \in Picks(OrderGroup, MaxStmts), mainDef \in MainDefs,
        after \in {<<>>, <<"sayAfter">>}}

\* a global, and a function and a method that read it
ScopePrelude ==
    << VarDecl("start", "int", FALSE, IntLit(10)),
       StructDef("R", "", <<Param("n", "int")>>),
       TraitDef("Peek", <<[name |-> "peek", returnType |-> "int"]>>),
       ImplBlock("Peek", "R",
                 <<FunctionDef("peek", <<>>, "int",
                               Block(<<ReturnStmt(Identifier("start"))>>))>>),
       FunctionDef("readStart", <<>>, "int", Block(<<ReturnStmt(Identifier("start"))>>)),
       VarDecl("r", "R", FALSE, StructInit("R", <<FieldInit("n", IntLit(1))>>)) >>

ScopeGroup == {"callTop", "callShadow", "methodTop", "methodShadow"}

\* the calls at top level, or in the body of fn main()
ScopeProgram(ps, inMain) ==
    IF inMain
    THEN Program(Append(ScopePrelude, FunctionDef("main", <<>>, "void", Block(StmtsOf(ps)))))
    ELSE Program(ScopePrelude \o StmtsOf(ps))

ScopePrograms ==
    {ScopeProgram(ps, inMain) : ps \in Picks(ScopeGroup, MaxStmts), inMain \in BOOLEAN}

AssignGroup == {"setN", "shadowSet", "blockSet", "redeclare", "setMissing", "setProto"}

\* let mut n: int = 1 at top level, then the statements at top level or in
\* the body of fn main()
AssignProgram(ps, inMain) ==
    IF inMain
    THEN Program(<< VarDecl("n", "int", TRUE, IntLit(1)),
                    FunctionDef("main", <<>>, "void", Block(StmtsOf(ps))) >>)
    ELSE Program(<<VarDecl("n", "int", TRUE, IntLit(1))>> \o StmtsOf(ps))

AssignPrograms ==
    {AssignProgram(ps, inMain) : ps \in Picks(AssignGroup, MaxStmts), inMain \in BOOLEAN}

\* a method that assigns to this, a function that assigns to its parameter,
\* and the global bindings the assignments are to
MutPrelude ==
    << StructDef("V", "", <<Param("n", "int")>>),
       TraitDef("Reset", <<[name |-> "reset", returnType |-> "void"]>>),
       ImplBlock("Reset", "V",
                 <<FunctionDef("reset", <<>>, "void",
                       Block(<<Assignment("this",
                                   StructInit("V", <<FieldInit("n", IntLit(0))>>))>>))>>),
       FunctionDef("bump", <<Param("par", "int")>>, "void",
                   Block(<<Assignment("par", IntLit(2))>>)),
       VarDecl("m", "int", TRUE, IntLit(1)),
       VarDecl("k", "int", FALSE, IntLit(1)),
       VarDecl("v", "V", TRUE, StructInit("V", <<FieldInit("n", IntLit(1))>>)),
       VarDecl("valueOf", "int", TRUE, IntLit(1)) >>

MutGroup == {"setM", "setBad", "moveV", "setV", "binders", "blockProto"}

\* the assignments at top level, or in the body of fn main()
MutProgram(ps, inMain) ==
    IF inMain
    THEN Program(Append(MutPrelude, FunctionDef("main", <<>>, "void", Block(StmtsOf(ps)))))
    ELSE Program(MutPrelude \o StmtsOf(ps))

MutPrograms ==
    {MutProgram(ps, inMain) : ps \in Picks(MutGroup, MaxStmts), inMain \in BOOLEAN}

\* the deepest nesting of statements around a return
MaxDepth == 2

\* print("never"): a statement that follows a return
Never == PrintStmt(StrLit("never"))

\* the statements a return is nested in
WrapKinds == {"if", "while", "for", "match", "block"}

\* inner inside an if, a while, a for, a match arm or a block, each with a
\* statement after inner
Wrap(kind, inner) ==
    CASE kind = "if" -> IfStmt(BoolLit(TRUE), Block(<<inner, Never>>), Null)
      [] kind = "while" -> WhileStmt(BoolLit(TRUE), Block(<<inner, Never>>))
      [] kind = "for" -> ForStmt("k", CallExpr("range", <<IntLit(2)>>),
                                 Block(<<inner, Never>>))
      [] kind = "match" -> MatchStmt(IntLit(1),
                                     <<MatchCase(Wildcard, Block(<<inner, Never>>))>>)
      [] OTHER -> Block(<<inner, Never>>)

RECURSIVE Nest(_, _)
Nest(kinds, inner) ==
    IF Len(kinds) = 0 THEN inner ELSE Wrap(Head(kinds), Nest(Tail(kinds), inner))

\* print("in"), the return of payload inside the nesting, print("never")
ReturnBody(kinds, payload) ==
    <<PrintStmt(StrLit("in")), Nest(kinds, ReturnStmt(payload)), Never>>

\* the payloads of the return: none (a bare return) or 42
Payloads == {Null, IntLit(42)}

\* the calls whose value is bound to v: of the function, of the method, of
\* the closure, and of a function that calls the function and goes on
ReturnCalls ==
    [ function |-> CallExpr("inner", <<>>),
      method |-> MethodCall(Identifier("r"), "go", <<>>),
      closure |-> CallExpr("cl", <<>>),
      outer |-> CallExpr("outer", <<>>) ]

\* a function, a method and a closure with the same returning body, and a
\* function that calls the first and returns after it
ReturnPrelude(kinds, payload) ==
    << StructDef("Ret", "", <<Param("n", "int")>>),
       TraitDef("Go", <<[name |-> "go", returnType |-> "int"]>>),
       ImplBlock("Go", "Ret",
                 <<FunctionDef("go", <<>>, "int", Block(ReturnBody(kinds, payload)))>>),
       FunctionDef("inner", <<>>, "int", Block(ReturnBody(kinds, payload))),
       FunctionDef("outer", <<>>, "str",
                   Block(<< VarDecl("w", "int", FALSE, CallExpr("inner", <<>>)),
                            PrintStmt(StrLit("back")),
                            ReturnStmt(StrLit("outer")),
                            Never >>)) >>

\* let r = Ret { n: 1 }; let cl = ||: body; let v = call; print("done")
ReturnMain(kinds, payload, call) ==
    << VarDecl("r", "Ret", FALSE, StructInit("Ret", <<FieldInit("n", IntLit(1))>>)),
       VarDecl("cl", "", FALSE, LambdaExpr(<<>>, Block(ReturnBody(kinds, payload)))),
       VarDecl("v", "", FALSE, ReturnCalls[call]),
       PrintStmt(StrLit("done")) >>

ReturnProgram(kinds, payload, call, inMain) ==
    IF inMain
    THEN Program(Append(ReturnPrelude(kinds, payload),
                        FunctionDef("main", <<>>, "void",
                                    Block(ReturnMain(kinds, payload, call)))))
    ELSE Program(ReturnPrelude(kinds, payload) \o ReturnMain(kinds, payload, call))

ReturnPrograms ==
    {ReturnProgram(kinds, payload, call, inMain) :
        kinds \in Picks(WrapKinds, MaxDepth), payload \in Payloads,
        call \in DOMAIN ReturnCalls, inMain \in BOOLEAN}

\* extern fn alert(msg: str), declared before everything else
ExternAlert == ExternFn("alert", <<Param("msg", "str")>>)

\* the statements of the programs that declare alert extern
ExternGroup == {"alertCall", "printT"}

Programs ==
    {ProgramOf(ps, inMain) : ps \in UNION {Picks(g, MaxStmts) : g \in Groups},
                             inMain \in BOOLEAN}
    \cup {Program(<<ExternAlert>> \o ProgramOf(ps, inMain).body) :
              ps \in Picks(ExternGroup, MaxStmts), inMain \in BOOLEAN}
    \cup OrderPrograms
    \cup ScopePrograms
    \cup AssignPrograms
    \cup ReturnPrograms
    \cup MutPrograms

(***************************************************************************)
(* The pipeline: analyze() and run() on a program                          *)
(***************************************************************************)
\* the statements run() executes at top level: everything but definitions
IsDefinition(stmt) == stmt.type \in {"FunctionDef", "TraitDef", "ImplBlock", "ExternFn"}

\* the first statement at or after place i that run() executes; Len + 1 if none
RECURSIVE NextStmt(_, _)
NextStmt(body, i) ==
    IF i > Len(body) THEN i
    ELSE IF IsDefinition(body[i]) THEN NextStmt(body, i + 1)
    ELSE i

\* a host matters only to a program with an extern declaration
HostsOf(program) ==
    IF \E i \in 1..Len(program.body) : program.body[i].type = "ExternFn"
    THEN Hosts ELSE {"node"}

\* the App component is not part of the runs of the compiler alone
HostIdle ==
    /\ code = ""
    /\ errors = <<>>
    /\ output = <<>>
    /\ scopes = <<>>
    /\ isRunning = FALSE
    /\ timer = FALSE
    /\ timeline = <<>>

Init ==
    /\ source = ""
    /\ pos = 0
    /\ line = 1
    /\ column = 1
    /\ indentStack = <<0>>
    /\ tokenQueue = <<>>
    /\ parenLevel = 0
    /\ tokens = <<>>
    /\ lexState = "idle"
    /\ parseState = "idle"
    /\ ast \in Programs
    /\ analyzer = SemanticAnalyzer
    /\ anPc = 0
    /\ \E host \in HostsOf(ast) : interp = Interpreter(host)
    /\ runPc = 0
    /\ HostIdle

\* analyze() has returned its diagnostics, or has thrown
AnalysisOver == analyzer.threw \/ anPc = Len(ast.body) + 1

\* run() has returned, or has thrown (an Error or an uncaught ReturnException)
RunOver == interp.status # "ok" \/ runPc = Len(ast.body) + 2

\* visitProgram, pass 1 and the standard library
AnalyzePass1 ==
    /\ anPc = 0
    /\ analyzer' = Pass1(analyzer, ast)
    /\ anPc' = 1
    /\ UNCHANGED <<lexVars, parseVars, hostVars, ast, interp, runPc>>

\* visitProgram, pass 2: the visit of one top-level statement
AnalyzeStatement ==
    /\ anPc \in 1..Len(ast.body)
    /\ ~analyzer.threw
    /\ analyzer' = SA_visit(ast.body[anPc], analyzer).A
    /\ anPc' = IF analyzer'.threw THEN anPc ELSE anPc + 1
    /\ UNCHANGED <<lexVars, parseVars, hostVars, ast, interp, runPc>>

\* Interpreter.visitProgram: registration of functions and impls
RunRegister ==
    /\ AnalysisOver
    /\ runPc = 0
    /\ interp' = I_registerAll(interp, ast.body)
    /\ runPc' = NextStmt(ast.body, 1)
    /\ UNCHANGED <<lexVars, parseVars, hostVars, ast, analyzer, anPc>>

\* Interpreter.visitProgram: one top-level statement
RunStatement ==
    /\ runPc \in 1..Len(ast.body)
    /\ interp.status = "ok"
    /\ interp' = I_visit(ast.body[runPc], interp).st
    /\ runPc' = NextStmt(ast.body, runPc + 1)
    /\ UNCHANGED <<lexVars, parseVars, hostVars, ast, analyzer, anPc>>

\* Interpreter.visitProgram: the call of main, when there is one
RunMain ==
    /\ runPc = Len(ast.body) + 1
    /\ interp.status = "ok"
    /\ interp' = IF ObjHas(interp.functions, "main")
                 THEN callFunction("main", <<>>, FALSE, <<>>, VNull, interp).st
                 ELSE interp
    /\ runPc' = Len(ast.body) + 2
    /\ UNCHANGED <<lexVars, parseVars, hostVars, ast, analyzer, anPc>>

Next == AnalyzePass1 \/ AnalyzeStatement \/ RunRegister \/ RunStatement \/ RunMain

Spec == Init /\ [][Next]_vars

\* the statements of the program after Setup
Picked ==
    IF Last(ast.body).type = "FunctionDef"
    THEN SubSeq(Last(ast.body).body.statements, Len(Setup) + 1,
                Len(Last(ast.body).body.statements))
    ELSE SubSeq(ast.body,
                Len(Prelude) + Len(Setup) + 1
                    + (IF ast.body[1].type = "ExternFn" THEN 1 ELSE 0),
                Len(ast.body))

\* whether the program's statements are the body of fn main()
InMain == Last(ast.body).type = "FunctionDef"

\* the program is one of those built on Prelude and Setup
InCatalog == \E i \in 1..Len(ast.body) : ast.body[i] = Prelude[1]

\* whether the program declares alert extern
HasExtern == ast.body[1].type = "ExternFn"

\* analyze() returned an empty list
Clean == anPc = Len(ast.body) + 1 /\ ~analyzer.threw /\ analyzer.errors = <<>>

(***************************************************************************)
(* Parser: parse() on the tokens, for the statements the sources of the    *)
(* model are made of (expression statements, let, assignment, match;       *)
(* literals, identifiers, binary operators, calls, member access,          *)
(* indexing, array and tuple literals, struct and enum literals)           *)
(***************************************************************************)
\* a parse result: the node and the position after it, or a thrown error
POk(node, p) == [ok |-> TRUE, node |-> node, pos |-> p]

PErr(p) == [ok |-> FALSE, node |-> Null, pos |-> p]

\* peek(): the token at pos, the last token once pos is past the end
P_peek(toks, p) == IF p > Len(toks) THEN toks[Len(toks)] ELSE toks[p]

\* lookahead(distance), p being the place of the current token
P_lookahead(toks, p, distance) ==
    IF p + distance > Len(toks) THEN Token("EOF", "", 0, 0) ELSE toks[p + distance]

\* while (this.match(TokenType.NEWLINE));
RECURSIVE P_skipNewlines(_, _)
P_skipNewlines(toks, p) ==
    IF P_peek(toks, p).type = "NEWLINE" THEN P_skipNewlines(toks, p + 1) ELSE p

getPrecedence(type) ==
    IF type \in {"PLUS", "MINUS"} THEN 10
    ELSE IF type \in {"STAR", "SLASH"} THEN 20
    ELSE IF type \in {"EQ", "NOT_EQ", "LT", "GT", "LTE", "GTE"} THEN 5
    ELSE -1

\* TokenType.LBRACKET and TokenType.RBRACKET as the parser reads them: types.js
\* defines neither member
LBRACKET == UndefinedKind

RBRACKET == UndefinedKind

RECURSIVE parseBinary(_, _, _)
RECURSIVE parseBinaryLoop(_, _, _, _)
RECURSIVE parseStructFields(_, _, _)
RECURSIVE parsePrimary(_, _)
RECURSIVE parseArgs(_, _, _)
RECURSIVE parseElements(_, _, _)
RECURSIVE parseTupleRest(_, _, _)
RECURSIVE parseSuffix(_, _, _)
RECURSIVE parseStatement(_, _)
RECURSIVE parseCases(_, _, _)
RECURSIVE parseArmBlock(_, _, _)

\* what follows a sub-parse: its error is passed on (the exception leaves the
\* calling method too), its result is handed to the rest of the method
Then(r, Rest(_)) == IF r.ok THEN Rest(r) ELSE r

\* this.consume(type) at the end of a construct that yields node
Closing(toks, p, type, node) ==
    IF P_peek(toks, p).type = type THEN POk(node, p + 1) ELSE PErr(p)

parseExpression(toks, p) == parseBinary(toks, p, 0)

\* the field loop of a struct literal, entered when the token after '{' is
\* not '}': newlines are skipped before a field and after its value, a '}'
\* after a comma ends the list
parseStructFields(toks, p, fields) ==
    LET p1 == P_skipNewlines(toks, p)
    IN  IF P_peek(toks, p1).type = "RBRACE" THEN POk(fields, p1)
        ELSE IF P_peek(toks, p1).type # "IDENTIFIER" THEN PErr(p1)
        ELSE IF P_peek(toks, p1 + 1).type # "COLON" THEN PErr(p1 + 1)
        ELSE Then(parseExpression(toks, p1 + 2),
                  LAMBDA v :
                      LET p2 == P_skipNewlines(toks, v.pos)
                          fs == Append(fields, FieldInit(P_peek(toks, p1).value, v.node))
                      IN  IF P_peek(toks, p2).type = "COMMA"
                          THEN parseStructFields(toks, p2 + 1, fs)
                          ELSE POk(fs, p2))

\* do { args.push(this.parseExpression()) } while (this.match(COMMA))
parseArgs(toks, p, args) ==
    Then(parseExpression(toks, p),
         LAMBDA e :
             IF P_peek(toks, e.pos).type = "COMMA"
             THEN parseArgs(toks, e.pos + 1, Append(args, e.node))
             ELSE POk(Append(args, e.node), e.pos))

\* the arguments of a call, p being the place after '(' ; up to and with ')'
parseCallArgs(toks, p) ==
    Then(IF P_peek(toks, p).type # "RPAREN" THEN parseArgs(toks, p, <<>>) ELSE POk(<<>>, p),
         LAMBDA a : Closing(toks, a.pos, "RPAREN", a.node))

\* the element loop of an array literal: newlines around an element are
\* skipped
parseElements(toks, p, elements) ==
    Then(parseExpression(toks, P_skipNewlines(toks, p)),
         LAMBDA e :
             LET p2 == P_skipNewlines(toks, e.pos)
             IN  IF P_peek(toks, p2).type = "COMMA"
                 THEN parseElements(toks, p2 + 1, Append(elements, e.node))
                 ELSE POk(Append(elements, e.node), p2))

\* [a, b, c], p being the place after the opening token
parseArrayLiteral(toks, p) ==
    Then(IF P_peek(toks, p).type # RBRACKET THEN parseElements(toks, p, <<>>)
         ELSE POk(<<>>, p),
         LAMBDA es : Closing(toks, es.pos, RBRACKET, ArrayLiteral(es.node)))

\* the elements of a tuple after its first comma; a ')' after a comma ends it
parseTupleRest(toks, p, elements) ==
    IF P_peek(toks, p).type = "RPAREN" THEN POk(elements, p)
    ELSE Then(parseExpression(toks, p),
              LAMBDA e :
                  IF P_peek(toks, e.pos).type = "COMMA"
                  THEN parseTupleRest(toks, e.pos + 1, Append(elements, e.node))
                  ELSE POk(Append(elements, e.node), e.pos))

\* (), (a, b) or the grouping (a), p being the place after '('
parseTupleOrGroup(toks, p) ==
    IF P_peek(toks, p).type = "RPAREN" THEN POk(TupleLiteral(<<>>), p + 1)
    ELSE Then(parseExpression(toks, p),
              LAMBDA expr :
                  IF P_peek(toks, expr.pos).type = "COMMA"
                  THEN Then(parseTupleRest(toks, expr.pos + 1, <<expr.node>>),
                            LAMBDA es : Closing(toks, es.pos, "RPAREN",
                                                TupleLiteral(es.node)))
                  ELSE Closing(toks, expr.pos, "RPAREN", expr.node))

\* the suffix loop of parsePrimary: .field, .method(args) and [index]
parseSuffix(toks, expr, p) ==
    IF P_peek(toks, p).type = "DOT"
    THEN IF P_peek(toks, p + 1).type # "IDENTIFIER" THEN PErr(p + 1)
         ELSE IF P_peek(toks, p + 2).type = "LPAREN"
         THEN Then(parseCallArgs(toks, p + 3),
                   LAMBDA a : parseSuffix(toks, MethodCall(expr, P_peek(toks, p + 1).value,
                                                           a.node), a.pos))
         ELSE parseSuffix(toks, MemberAccess(expr, P_peek(toks, p + 1).value), p + 2)
    ELSE IF P_peek(toks, p).type = LBRACKET
    THEN Then(parseExpression(toks, p + 1),
              LAMBDA index :
                  IF P_peek(toks, index.pos).type = RBRACKET
                  THEN parseSuffix(toks, IndexExpr(expr, index.node), index.pos + 1)
                  ELSE PErr(index.pos))
    ELSE POk(expr, p)

\* Name::Variant, Name::Variant { f: v, ... } and Name::Variant(args), p being
\* the place of Name
parseEnumVariant(toks, p) ==
    LET name == P_peek(toks, p).value
        variantName == P_peek(toks, p + 2).value
    IN  IF P_peek(toks, p + 2).type # "IDENTIFIER" THEN PErr(p + 2)
        ELSE IF P_peek(toks, p + 3).type = "LBRACE"
        THEN Then(IF P_peek(toks, p + 4).type # "RBRACE"
                  THEN parseStructFields(toks, p + 4, <<>>)
                  ELSE POk(<<>>, p + 4),
                  LAMBDA fs : Closing(toks, fs.pos, "RBRACE",
                                      EnumStructVariant(name, variantName, fs.node)))
        ELSE IF P_peek(toks, p + 3).type = "LPAREN"
        THEN Then(parseCallArgs(toks, p + 4),
                  LAMBDA a :
                      POk([type |-> "EnumVariant", enumType |-> name,
                           variant |-> variantName, kind |-> "Tuple", fields |-> <<>>,
                           value |-> IF Len(a.node) = 1 THEN a.node[1]
                                     ELSE ArrayLiteral(a.node)],
                          a.pos))
        ELSE POk(EnumUnitVariant(name, variantName), p + 3)

\* Some(e), Ok(e) and Err(e), p being the place of the keyword
parseSugar(toks, p, enumType, variant) ==
    IF P_peek(toks, p + 1).type # "LPAREN" THEN PErr(p + 1)
    ELSE Then(parseExpression(toks, p + 2),
              LAMBDA value : Closing(toks, value.pos, "RPAREN",
                                     EnumSugar(enumType, variant, value.node)))

\* the identifier branch of parsePrimary, p being the place of an
\* identifier or of this
parseNamed(toks, p) ==
    LET t == P_peek(toks, p)
    IN  IF t.type = "IDENTIFIER" /\ P_peek(toks, p + 1).type = "DOUBLE_COLON"
        THEN parseEnumVariant(toks, p)
        ELSE IF t.type = "IDENTIFIER" /\ P_peek(toks, p + 1).type = "LBRACE"
        THEN Then(IF P_peek(toks, p + 2).type # "RBRACE"
                  THEN parseStructFields(toks, p + 2, <<>>)
                  ELSE POk(<<>>, p + 2),
                  LAMBDA fs :
                      LET p3 == P_skipNewlines(toks, fs.pos)
                      IN  IF P_peek(toks, p3).type = "RBRACE"
                          THEN parseSuffix(toks, StructInit(t.value, fs.node), p3 + 1)
                          ELSE PErr(p3))
        ELSE IF P_peek(toks, p + 1).type = "LPAREN"
        THEN Then(parseCallArgs(toks, p + 2),
                  LAMBDA a : parseSuffix(toks, CallExpr(t.value, a.node), a.pos))
        ELSE parseSuffix(toks, Identifier(t.value), p + 1)

\* parsePrimary(), in the order of its tests: literals, array literal, tuple
\* or grouping, identifier, and the Option and Result constructors (lambdas
\* and borrows are not among the sources of the model)
parsePrimary(toks, p) ==
    LET t == P_peek(toks, p)
    IN  IF t.type = "NUMBER" THEN POk(IntLit(t.value), p + 1)
        ELSE IF t.type = "STRING" THEN POk(StrLit(t.value), p + 1)
        ELSE IF t.type = "BOOLEAN" THEN POk(BoolLit(t.value = "true"), p + 1)
        ELSE IF t.type = LBRACKET THEN parseArrayLiteral(toks, p + 1)
        ELSE IF t.type = "LPAREN" THEN parseTupleOrGroup(toks, p + 1)
        ELSE IF t.type \in {"IDENTIFIER", "THIS"} THEN parseNamed(toks, p)
        ELSE IF t.type = "SOME" THEN parseSugar(toks, p, "Option", "Some")
        ELSE IF t.type = "NONE" THEN POk(EnumSugar("Option", "None", Null), p + 1)
        ELSE IF t.type = "OK" THEN parseSugar(toks, p, "Result", "Ok")
        ELSE IF t.type = "ERR" THEN parseSugar(toks, p, "Result", "Err")
        ELSE PErr(p)

\* the precedence-climbing loop of parseBinary
parseBinaryLoop(toks, left, p, minPrecedence) ==
    LET token == P_peek(toks, p)
        precedence == getPrecedence(token.type)
    IN  IF precedence < minPrecedence THEN POk(left, p)
        ELSE Then(parseBinary(toks, p + 1, precedence + 1),
                  LAMBDA right :
                      parseBinaryLoop(toks, BinaryExpr(token.value, left, right.node),
                                      right.pos, minPrecedence))

parseBinary(toks, p, minPrecedence) ==
    Then(parsePrimary(toks, p),
         LAMBDA left : parseBinaryLoop(toks, left.node, left.pos, minPrecedence))

\* if (this.peek().type === TokenType.NEWLINE) this.consume(TokenType.NEWLINE)
P_optNewline(toks, p) == IF P_peek(toks, p).type = "NEWLINE" THEN p + 1 ELSE p

\* parseVarDecl(), without destructuring and without a type annotation
parseVarDecl(toks, p) ==
    LET isMutable == P_peek(toks, p + 1).type = "MUT"
        p1 == IF isMutable THEN p + 2 ELSE p + 1
    IN  IF P_peek(toks, p1).type # "IDENTIFIER" THEN PErr(p1)
        ELSE IF P_peek(toks, p1 + 1).type = "ASSIGN"
        THEN Then(parseExpression(toks, p1 + 2),
                  LAMBDA init :
                      POk(VarDecl(P_peek(toks, p1).value, "", isMutable, init.node),
                          P_optNewline(toks, init.pos)))
        ELSE POk(VarDecl(P_peek(toks, p1).value, "", isMutable, Null),
                 P_optNewline(toks, p1 + 1))

parseAssignment(toks, p) ==
    Then(parseExpression(toks, p + 2),
         LAMBDA value :
             POk(Assignment(P_peek(toks, p).value, value.node), P_optNewline(toks, value.pos)))

parseExpressionStatement(toks, p) ==
    Then(parseExpression(toks, p),
         LAMBDA expr : POk(ExpressionStatement(expr.node), P_optNewline(toks, expr.pos)))

\* do { fields.push(this.consume(IDENTIFIER).value) } while (this.match(COMMA))
RECURSIVE parsePatternFields(_, _, _)
parsePatternFields(toks, p, fields) ==
    IF P_peek(toks, p).type # "IDENTIFIER" THEN PErr(p)
    ELSE IF P_peek(toks, p + 1).type = "COMMA"
    THEN parsePatternFields(toks, p + 2, Append(fields, P_peek(toks, p).value))
    ELSE POk(Append(fields, P_peek(toks, p).value), p + 1)

\* the pattern of a match arm (the second parseMatchStmt of the class, the
\* one in effect), p being the place of the identifier it starts with
parsePattern(toks, p) ==
    LET baseName == P_peek(toks, p).value
    IN  IF P_peek(toks, p + 1).type = "DOUBLE_COLON"
        THEN IF P_peek(toks, p + 2).type # "IDENTIFIER" THEN PErr(p + 2)
             ELSE IF P_peek(toks, p + 3).type = "LBRACE"
             THEN Then(parsePatternFields(toks, p + 4, <<>>),
                       LAMBDA fs : Closing(toks, fs.pos, "RBRACE",
                                           EnumPattern(baseName, P_peek(toks, p + 2).value,
                                                       fs.node)))
             ELSE POk(EnumPattern(baseName, P_peek(toks, p + 2).value, <<>>), p + 3)
        ELSE IF baseName = "_" THEN POk(Wildcard, p + 1)
        ELSE POk(Identifier(baseName), p + 1)

\* the statements of an indented arm body, up to its DEDENT
parseArmBlock(toks, p, stmts) ==
    IF P_peek(toks, p).type = "DEDENT" THEN POk(stmts, p)
    ELSE Then(parseStatement(toks, p),
              LAMBDA st : parseArmBlock(toks, st.pos, Append(stmts, st.node)))

\* the body of a match arm: an indented block, or one statement on the line
parseArmBody(toks, p) ==
    IF P_peek(toks, p).type = "NEWLINE"
    THEN IF P_peek(toks, p + 1).type # "INDENT" THEN PErr(p + 1)
         ELSE Then(parseArmBlock(toks, p + 2, <<>>),
                   LAMBDA b : Closing(toks, b.pos, "DEDENT", Block(b.node)))
    ELSE parseStatement(toks, p)

\* the arms of a match, up to the DEDENT or EOF that ends them; an arm starts
\* with this.consume(TokenType.IDENTIFIER)
parseCases(toks, p, cases) ==
    LET type == P_peek(toks, p).type
    IN  IF type \in {"DEDENT", "EOF"} THEN POk(cases, p)
        ELSE IF type = "NEWLINE" THEN parseCases(toks, p + 1, cases)
        ELSE IF type # "IDENTIFIER" THEN PErr(p)
        ELSE Then(parsePattern(toks, p),
                  LAMBDA pattern :
                      IF P_peek(toks, pattern.pos).type # "FAT_ARROW" THEN PErr(pattern.pos)
                      ELSE Then(parseArmBody(toks, pattern.pos + 1),
                                LAMBDA body :
                                    parseCases(toks, body.pos,
                                               Append(cases, MatchCase(pattern.node,
                                                                       body.node)))))

\* parseMatchStmt(), p being the place of match
parseMatchStmt(toks, p) ==
    Then(parseExpression(toks, p + 1),
         LAMBDA subject :
             IF P_peek(toks, subject.pos).type # "COLON" THEN PErr(subject.pos)
             ELSE IF P_peek(toks, subject.pos + 1).type # "NEWLINE"
             THEN PErr(subject.pos + 1)
             ELSE IF P_peek(toks, subject.pos + 2).type # "INDENT"
             THEN PErr(subject.pos + 2)
             ELSE Then(parseCases(toks, subject.pos + 3, <<>>),
                       LAMBDA cs : Closing(toks, cs.pos, "DEDENT",
                                           MatchStmt(subject.node, cs.node))))

\* parseStatement(): the cases for let, match, identifier and the default
parseStatement(toks, p) ==
    LET type == P_peek(toks, p).type
    IN  IF type = "LET" THEN parseVarDecl(toks, p)
        ELSE IF type = "MATCH" THEN parseMatchStmt(toks, p)
        ELSE IF type = "IDENTIFIER" /\ P_lookahead(toks, p, 1).type = "ASSIGN"
        THEN parseAssignment(toks, p)
        ELSE parseExpressionStatement(toks, p)

\* parse(): statements up to EOF, newlines between them skipped
RECURSIVE parse(_, _, _)
parse(toks, p, body) ==
    IF P_peek(toks, p).type = "EOF" THEN POk(Program(body), p)
    ELSE IF P_peek(toks, p).type = "NEWLINE" THEN parse(toks, p + 1, body)
    ELSE Then(parseStatement(toks, p),
              LAMBDA st : parse(toks, st.pos, Append(body, st.node)))

(***************************************************************************)
(* Lexer runs: tokenize() on a source                                      *)
(***************************************************************************)
\* new Lexer(input)
LexInit ==
    /\ source \in Sources
    /\ pos = 0
    /\ line = 1
    /\ column = 1
    /\ indentStack = <<0>>
    /\ tokenQueue = <<>>
    /\ parenLevel = 0
    /\ tokens = <<>>
    /\ lexState = "running"
    /\ parseState = "idle"
    /\ ast = Program(<<>>)
    /\ analyzer = SemanticAnalyzer
    /\ anPc = 0
    /\ interp = Interpreter("node")
    /\ runPc = 0
    /\ HostIdle

\* one iteration of tokenize()'s loop that pushes a token other than EOF
TokenizeStep ==
    /\ lexState = "running"
    /\ LET r == nextToken(LexerObj)
       IN  /\ r.kind = "token"
           /\ r.token.type # "EOF"
           /\ SetLexer(r.L)
           /\ tokens' = Append(tokens, r.token)
           /\ UNCHANGED <<lexState, parseVars, pipeVars, hostVars>>

\* the last iteration: EOF is pushed and tokenize() returns
TokenizeEof ==
    /\ lexState = "running"
    /\ LET r == nextToken(LexerObj)
       IN  /\ r.kind = "token"
           /\ r.token.type = "EOF"
           /\ SetLexer(r.L)
           /\ tokens' = Append(tokens, r.token)
           /\ lexState' = "done"
           /\ UNCHANGED <<parseVars, pipeVars, hostVars>>

\* nextToken() throws: tokenize() returns nothing
TokenizeError ==
    /\ lexState = "running"
    /\ LET r == nextToken(LexerObj)
       IN  /\ r.kind = "error"
           /\ SetLexer(r.L)
           /\ lexState' = "error"
           /\ UNCHANGED <<tokens, parseVars, pipeVars, hostVars>>

LexNext == TokenizeStep \/ TokenizeEof \/ TokenizeError

SpecLex == LexInit /\ [][LexNext]_vars

(***************************************************************************)
(* Parser runs: new Parser(input).parse() on a struct literal spread over  *)
(* lines                                                                   *)
(***************************************************************************)
\* the widest indentation of a continuation line
MaxWidth == 2

RECURSIVE Spaces(_)
Spaces(w) == IF w = 0 THEN "" ELSE " " \o Spaces(w - 1)

\* what separates the parts of the literal: a blank, or a line break followed
\* by an indentation
Seps == {" "} \cup {"\n" \o Spaces(w) : w \in 0..MaxWidth}

\* what precedes the literal: nothing, a let, a line that opens an indented
\* line, or lines whose indentation is inconsistent
Leads == {"", "let p = ", "a\n  ", "a\n  b\n "}

JoinSources ==
    {lead \o "P {" \o s1 \o "x: 1," \o s2 \o "y: b" \o comma \o s3 \o "}" \o tail :
        lead \in Leads, s1 \in Seps, s2 \in Seps, s3 \in Seps,
        comma \in {"", ","}, tail \in {"", "\n"}}

\* new Parser(input): the constructor builds the lexer and calls tokenize()
JoinInit ==
    /\ source \in JoinSources
    /\ pos = 0
    /\ line = 1
    /\ column = 1
    /\ indentStack = <<0>>
    /\ tokenQueue = <<>>
    /\ parenLevel = 0
    /\ tokens = <<>>
    /\ lexState = "running"
    /\ parseState = "idle"
    /\ ast = Program(<<>>)
    /\ analyzer = SemanticAnalyzer
    /\ anPc = 0
    /\ interp = Interpreter("node")
    /\ runPc = 0
    /\ HostIdle

\* parse() on the tokens the constructor got; a parse error is thrown
ParseProgram ==
    /\ lexState = "done"
    /\ parseState = "idle"
    /\ LET r == parse(tokens, 1, <<>>)
       IN  /\ parseState' = IF r.ok THEN "done" ELSE "error"
           /\ ast' = IF r.ok THEN r.node ELSE ast
    /\ UNCHANGED <<lexVars, hostVars, analyzer, anPc, interp, runPc>>

JoinNext == TokenizeStep \/ TokenizeEof \/ TokenizeError \/ ParseProgram

SpecJoin == JoinInit /\ [][JoinNext]_vars

(***************************************************************************)
(* Parser runs: new Parser(input).parse() on match statements and on       *)
(* sources with square brackets                                            *)
(***************************************************************************)
\* the most arms a match statement of the sources has
MaxArms == 2

\* the patterns of the arms
PatternTexts ==
    {"_", "Some(x)", "Ok(x)", "Err(x)", "None", "State::Idle",
     "State::Stopped { reason }", "State::Pair { a, b }"}

\* the bodies of the arms: a statement on the arm's line, or an indented block
BodyTexts == {" 1", " print(x)", "\n    print(x)"}

\* the arms with patterns ps, each with the same body
RECURSIVE ArmsText(_, _)
ArmsText(ps, body) ==
    IF Len(ps) = 0 THEN ""
    ELSE "\n  " \o Head(ps) \o " =>" \o body \o ArmsText(Tail(ps), body)

MatchSource(ps, body) == "match s:" \o ArmsText(ps, body)

\* the match statements of the sources, with the patterns they are made of
MatchCatalog ==
    {[src |-> MatchSource(ps, body), patterns |-> ps, body |-> body] :
        ps \in Picks(PatternTexts, MaxArms) \ {<<>>}, body \in BodyTexts}

\* indexing and array literals, with the brackets in place and swapped, a
\* bracket left open, and a character the lexer rejects
BracketSources ==
    {"xs[i]", "[a, b]", "xs[0]", "[1, 2]", "let v = xs[i]", "let v = [a, b]", "[]",
     "xs[i][j]", "xs]i[", "]a, b[", "xs[i", "[a, b", "xs[i] !"}

ParseSources == {m.src : m \in MatchCatalog} \cup BracketSources

\* new Parser(input): the constructor builds the lexer and calls tokenize()
ParseInit ==
    /\ source \in ParseSources
    /\ pos = 0
    /\ line = 1
    /\ column = 1
    /\ indentStack = <<0>>
    /\ tokenQueue = <<>>
    /\ parenLevel = 0
    /\ tokens = <<>>
    /\ lexState = "running"
    /\ parseState = "idle"
    /\ ast = Program(<<>>)
    /\ analyzer = SemanticAnalyzer
    /\ anPc = 0
    /\ interp = Interpreter("node")
    /\ runPc = 0
    /\ HostIdle

SpecParse == ParseInit /\ [][JoinNext]_vars

(***************************************************************************)
(* Host: the App component (code, errors, ast, output, scopes, isRunning),  *)
(* its debounced analysis and its Run and Clear buttons                    *)
(***************************************************************************)
\* new Lexer(input)
Lexer(input) ==
    [source |-> input, pos |-> 0, line |-> 1, column |-> 1, indentStack |-> <<0>>,
     tokenQueue |-> <<>>, parenLevel |-> 0]

\* Lexer.tokenize(): the tokens up to EOF, or the error nextToken() throws
RECURSIVE tokenizeLoop(_, _)
tokenizeLoop(r, toks) ==
    IF r.kind = "error"
    THEN [ok |-> FALSE, tokens |-> <<>>,
          message |-> "Lexer Error at " \o NatToStr(r.L.line) \o ":"
                      \o NatToStr(r.L.column) \o ": " \o r.token.value]
    ELSE IF r.token.type = "EOF"
    THEN [ok |-> TRUE, tokens |-> Append(toks, r.token), message |-> ""]
    ELSE tokenizeLoop(nextToken(r.L), Append(toks, r.token))

tokenize(L) == tokenizeLoop(nextToken(L), <<>>)

\* SemanticAnalyzer.visitProgram, pass 2, from statement i on
RECURSIVE SA_visitProgram(_, _, _)
SA_visitProgram(body, i, A) ==
    IF i > Len(body) \/ A.threw THEN A
    ELSE SA_visitProgram(body, i + 1, SA_visit(body[i], A).A)

\* new SemanticAnalyzer(ast).analyze()
analyze(program) == SA_visitProgram(program.body, 1, Pass1(SemanticAnalyzer, program))

\* Interpreter.visitProgram: the top-level statements from i on, then main
RECURSIVE I_visitProgram(_, _, _)
I_visitProgram(body, i, st) ==
    IF st.status # "ok" THEN st
    ELSE IF i > Len(body)
    THEN IF ObjHas(st.functions, "main")
         THEN callFunction("main", <<>>, FALSE, <<>>, VNull, st).st
         ELSE st
    ELSE I_visitProgram(body, NextStmt(body, i + 1), I_visit(body[i], st).st)

\* new Interpreter(ast, onOutput, onEvent).run()
run(program, host) ==
    I_visitProgram(program.body, NextStmt(program.body, 1),
                   I_registerAll(Interpreter(host), program.body))

\* runAnalysis: the values it leaves in ast and errors. The message of a
\* parse error is kept up to its position, and a TypeError's as its name
Analysed(newAst, A) ==
    IF A.threw THEN [ast |-> Null, errors |-> <<"TypeError">>]
    ELSE [ast |-> newAst, errors |-> A.errors]

Parsed(toks, pr) ==
    IF ~pr.ok
    THEN [ast |-> Null,
          errors |-> <<"Parser Error at " \o NatToStr(P_peek(toks, pr.pos).line) \o ":"
                       \o NatToStr(P_peek(toks, pr.pos).column)>>]
    ELSE Analysed(pr.node, analyze(pr.node))

Lexed(lx) ==
    IF ~lx.ok THEN [ast |-> Null, errors |-> <<lx.message>>]
    ELSE Parsed(lx.tokens, parse(lx.tokens, 1, <<>>))

runAnalysis(text) == Lexed(tokenize(Lexer(text)))

\* the texts the editor holds: two clean programs, one with a diagnostic, one
\* that does not parse and one that does not lex
HostTexts ==
    {"let a = 1", "let a = 1\nlet b = a", "let a = b", "let a =", "a\n  b\n c"}

\* the timeline of a run; the texts of the editor print nothing, so it holds
\* memory events only
Timeline(st) == [i \in 1..Len(st.events) |-> [type |-> "MEM", event |-> st.events[i]]]

\* the place of the scope with this id in the memory view, 0 for none
RECURSIVE ScopeIndex(_, _, _)
ScopeIndex(view, id, from) ==
    IF from > Len(view) THEN 0
    ELSE IF view[from].id = id THEN from
    ELSE ScopeIndex(view, id, from + 1)

RemoveAt(seq, i) == SubSeq(seq, 1, i - 1) \o SubSeq(seq, i + 1, Len(seq))

\* the setScopes update of the playback for one memory event
PlayEvent(view, ev) ==
    IF ev.type = "ENTER_SCOPE"
    THEN Append(view, [id |-> ev.scopeId, variables |-> <<>>, active |-> TRUE])
    ELSE IF ev.type = "EXIT_SCOPE"
    THEN LET idx == ScopeIndex(view, ev.scopeId, 1)
         IN  IF idx # 0 THEN RemoveAt(view, idx) ELSE view
    ELSE LET found == ScopeIndex(view, ev.scopeId, 1)
             writes == ev.type = "DECLARE" \/ ev.type = "UPDATE"
             view1 == IF found = 0 /\ writes
                      THEN Append(view, [id |-> ev.scopeId, variables |-> <<>>,
                                         active |-> TRUE])
                      ELSE view
             scopeIndex == IF found = 0 /\ writes THEN Len(view1) ELSE found
         IN  IF scopeIndex = 0 THEN view1
             ELSE IF writes
             THEN [view1 EXCEPT ![scopeIndex].variables =
                      ObjPut(@, ev.name, [value |-> ev.value, moved |-> ev.moved])]
             ELSE IF ev.type = "MOVE" /\ ObjHas(view1[scopeIndex].variables, ev.name)
             THEN [view1 EXCEPT ![scopeIndex].variables =
                      ObjPut(@, ev.name, [ObjGet(@, ev.name) EXCEPT !.moved = TRUE])]
             ELSE view1

\* the component is mounted: nothing analysed yet, the first timer pending
HostInit ==
    /\ source = ""
    /\ pos = 0
    /\ line = 1
    /\ column = 1
    /\ indentStack = <<0>>
    /\ tokenQueue = <<>>
    /\ parenLevel = 0
    /\ tokens = <<>>
    /\ lexState = "idle"
    /\ parseState = "idle"
    /\ ast = Null
    /\ analyzer = SemanticAnalyzer
    /\ anPc = 0
    /\ interp = Interpreter("browser")
    /\ runPc = 0
    /\ code \in HostTexts
    /\ errors = <<>>
    /\ output = <<>>
    /\ scopes = <<>>
    /\ isRunning = FALSE
    /\ timer = TRUE
    /\ timeline = <<>>

\* the editor's onChange: setCode, and the effect replaces the timer
EditCode ==
    /\ \E text \in HostTexts \ {code} : code' = text
    /\ timer' = TRUE
    /\ UNCHANGED <<lexVars, parseVars, pipeVars, errors, output, scopes, isRunning,
                   timeline>>

\* runAnalysis: setAst and setErrors
Analysis(r) == ast' = r.ast /\ errors' = r.errors

\* the timer fires 500 ms after the last change: runAnalysis
DebouncedAnalysis ==
    /\ timer
    /\ timer' = FALSE
    /\ Analysis(runAnalysis(code))
    /\ UNCHANGED <<lexVars, parseVars, analyzer, anPc, interp, runPc, code, output,
                   scopes, isRunning, timeline>>

\* handleRun after interpreter.run(): a runtime error is shown, or the
\* playback of the timeline begins
Ran(st) ==
    IF st.status # "ok"
    THEN /\ output' = <<"Runtime Error: " \o st.err>>
         /\ isRunning' = FALSE
         /\ timeline' = <<>>
    ELSE /\ output' = <<>>
         /\ timeline' = Timeline(st)
         /\ isRunning' = (Len(st.events) > 0)

\* handleRun finds something to run
RunAllowed == ~(Len(errors) > 0 \/ ast = Null)

\* a click on Run (enabled unless errors are shown or a run is playing):
\* handleRun up to its first sleep
HandleRun ==
    /\ ~(Len(errors) > 0 \/ isRunning)
    /\ scopes' = <<>>
    /\ IF ~RunAllowed
       THEN /\ output' = <<"Cannot run: Fix errors first.">>
            /\ isRunning' = FALSE
            /\ timeline' = <<>>
       ELSE Ran(run(ast, "browser"))
    /\ UNCHANGED <<lexVars, parseVars, pipeVars, code, errors, timer>>

\* handleRun after a sleep of 800 ms: one item of the timeline is shown, and
\* after the last one the run is over
PlaybackStep ==
    /\ isRunning
    /\ Len(timeline) > 0
    /\ LET item == Head(timeline)
       IN  IF item.type = "LOG"
           THEN output' = Append(output, item.text) /\ UNCHANGED scopes
           ELSE scopes' = PlayEvent(scopes, item.event) /\ UNCHANGED output
    /\ timeline' = Tail(timeline)
    /\ isRunning' = (Len(timeline') > 0)
    /\ UNCHANGED <<lexVars, parseVars, pipeVars, code, errors, timer>>

\* a click on Clear
Clear ==
    /\ output' = <<>>
    /\ scopes' = <<>>
    /\ UNCHANGED <<lexVars, parseVars, pipeVars, code, errors, isRunning, timer,
                   timeline>>

HostNext == EditCode \/ DebouncedAnalysis \/ HandleRun \/ PlaybackStep \/ Clear

SpecHost == HostInit /\ [][HostNext]_vars

(***************************************************************************)
(* Claims about the lexer                                                  *)
(***************************************************************************)
RECURSIVE CountType(_, _)
CountType(toks, type) ==
    IF Len(toks) = 0 THEN 0
    ELSE CountType(Front(toks), type) + (IF Last(toks).type = type THEN 1 ELSE 0)

\* C4: balanced layout.  When tokenize() has returned, the token sequence has
\* as many DEDENT as INDENT tokens, no prefix of it has more DEDENTs than
\* INDENTs, its last token is its only EOF, and the indent stack is [0].
C4_BalancedLayout ==
    /\ \A k \in 0..Len(tokens) :
          CountType(SubSeq(tokens, 1, k), "DEDENT") <= CountType(SubSeq(tokens, 1, k), "INDENT")
    /\ lexState = "done" =>
          /\ CountType(tokens, "DEDENT") = CountType(tokens, "INDENT")
          /\ Len(tokens) > 0
          /\ Last(tokens).type = "EOF"
          /\ CountType(tokens, "EOF") = 1
          /\ indentStack = <<0>>

\* a finished tokenization in which a newline's DEDENT closed an INDENT
C4_Witness ==
    /\ lexState = "done"
    /\ CountType(tokens, "INDENT") >= 1
    /\ \E i \in 1..Len(tokens) - 1 :
          tokens[i].type = "DEDENT" /\ tokens[i + 1].type \notin {"EOF", "DEDENT"}

(***************************************************************************)
(* Claims about the analyzer and the interpreter                           *)
(***************************************************************************)
\* the program's statements after Setup are exactly the named ones
PickedIs(names) == Picked = StmtsOf(names)

\* analyze() has returned (without throwing)
AnalysisReturned == anPc = Len(ast.body) + 1 /\ ~analyzer.threw

RECURSIVE Occurrences(_, _)
Occurrences(seq, x) ==
    IF Len(seq) = 0 THEN 0
    ELSE Occurrences(Tail(seq), x) + (IF Head(seq) = x THEN 1 ELSE 0)

\* the statements of the catalog that read the identifier a (once each)
ReadsOfA ==
    {Stmt[k] : k \in {"moveA", "readField", "printA", "methodArg", "closureArg",
                      "structField", "takeA"}}

\* the number of statements after place i that read a
RECURSIVE ReadsAfter(_, _)
ReadsAfter(stmts, i) ==
    IF i >= Len(stmts) THEN 0
    ELSE ReadsAfter(stmts, i + 1) + (IF stmts[i + 1] \in ReadsOfA THEN 1 ELSE 0)

\* C1: once `let b: U = a` has consumed the struct binding a, every later
\* read of a (field-access base, method-call argument, closure-call argument,
\* struct-literal field value, ...) adds a diagnostic "Use of moved value 'a'"
\* to the list analyze() returns: there are at least as many such diagnostics
\* as later reads.
C1_EveryMovedReadReported ==
    (AnalysisReturned /\ Len(Picked) > 0 /\ Picked[1] = Stmt.moveA)
        => Occurrences(analyzer.errors, "Use of moved value 'a'") >= ReadsAfter(Picked, 1)

\* C2: a program for which analyze() returned an empty list runs without
\* raising: the interpreter never holds an Error or an uncaught
\* ReturnException.
C2_CleanRunCompletes == Clean => interp.status = "ok"

\* C3: analyze() never throws, whatever the program.
C3_AnalyzerNeverThrows == ~analyzer.threw

\* the scopes entered and not yet exited after a trace, oldest first; ok is
\* FALSE once an EXIT_SCOPE names a scope other than the last one entered and
\* still open, or an ENTER_SCOPE names a scope entered before
RECURSIVE ScopeStack(_)
ScopeStack(evs) ==
    IF Len(evs) = 0 THEN [ok |-> TRUE, open |-> <<>>, seen |-> {}]
    ELSE LET r == ScopeStack(Front(evs))
             e == Last(evs)
         IN  IF e.type = "ENTER_SCOPE"
             THEN [ok |-> r.ok /\ e.scopeId \notin r.seen,
                   open |-> Append(r.open, e.scopeId),
                   seen |-> r.seen \cup {e.scopeId}]
             ELSE IF e.type = "EXIT_SCOPE"
             THEN [ok |-> r.ok /\ Len(r.open) > 0 /\ Last(r.open) = e.scopeId,
                   open |-> IF Len(r.open) > 0 THEN Front(r.open) ELSE <<>>,
                   seen |-> r.seen]
             ELSE r

EventCount(type) ==
    Cardinality({i \in 1..Len(interp.events) : interp.events[i].type = type})

\* C5: scope events are well bracketed. Between two top-level statements and
\* at the end of a run, also one that a return or a runtime error cut short,
\* every ENTER_SCOPE(id) of the trace has been followed by its one
\* EXIT_SCOPE(id), and each EXIT_SCOPE named the scope entered last among
\* those still open.
C5_WellBracketed ==
    LET r == ScopeStack(interp.events)
    IN  r.ok /\ r.open = <<>>

\* a runtime error that unwound two nested blocks
C5_Witness ==
    /\ interp.status = "error"
    /\ \E i \in 1..Len(interp.events) - 1 :
          /\ interp.events[i].type = "ENTER_SCOPE"
          /\ \E j \in i + 1..Len(interp.events) :
                /\ interp.events[j].type = "ENTER_SCOPE"
                /\ interp.events[j].parentScopeId = interp.events[i].scopeId
    /\ EventCount("EXIT_SCOPE") >= 2

\* C6: in the trace of a program whose analysis was clean, every UPDATE and
\* MOVE event names the global environment or a scope an earlier ENTER_SCOPE
\* event announced.
C6_EventScopesAnnounced ==
    Clean =>
        \A i \in 1..Len(interp.events) :
            interp.events[i].type \in {"UPDATE", "MOVE"} =>
                \/ interp.events[i].scopeId = interp.globalEnv
                \/ \E j \in 1..i - 1 :
                      /\ interp.events[j].type = "ENTER_SCOPE"
                      /\ interp.events[j].scopeId = interp.events[i].scopeId

\* C7: a value built by State::Stopped { reason: "Done" } and matched with
\* the arm State::Stopped { reason } selects that arm with reason bound to
\* "Done": the program of scenario S5 outputs the single line "Stopped: Done".
C7_VariantPayloadBound ==
    (RunOver /\ PickedIs(<<"matchS">>)) => interp.output = <<"Stopped: Done">>

\* C8: lexical closure capture. A closure call runs the body in a fresh child
\* of the environment that was current where the lambda was evaluated, not of
\* the caller's: the environment that receives adder's parameter x has as
\* parent the environment that holds adder and start = 10, the programs that
\* only call adder(5) are accepted without diagnostics, and each such call
\* prints 15, also from a block that declares its own start = 100.
C8_LexicalCapture ==
    LET onlyAdder == /\ InCatalog
                     /\ \A i \in 1..Len(Picked) :
                            Picked[i] \in {Stmt.printAdder, Stmt.shadowAdder}
    IN  /\ \A i \in 1..Len(interp.events) :
              (interp.events[i].type = "DECLARE" /\ interp.events[i].name = "x") =>
                  LET captured == interp.envs[interp.envs[interp.events[i].scopeId].parent]
                  IN  /\ ObjHas(captured.values, "adder")
                      /\ ObjHas(captured.values, "start")
                      /\ ObjGet(captured.values, "start") = VInt(10)
        /\ (AnalysisOver /\ onlyAdder) => Clean
        /\ (RunOver /\ onlyAdder) =>
              /\ interp.status = "ok"
              /\ Len(interp.output) = Len(Picked)
              /\ \A i \in 1..Len(interp.output) : interp.output[i] = "15"

\* adder(5) called from a block that shadows start has printed 15
C8_Witness ==
    /\ RunOver
    /\ Len(Picked) > 0 /\ Picked[1] = Stmt.shadowAdder
    /\ Len(interp.output) > 0 /\ interp.output[1] = "15"
    /\ \E i \in 1..Len(interp.events) :
          interp.events[i].type = "DECLARE" /\ interp.events[i].name = "x"

\* the first ImplBlock of the program, in source order, whose target type
\* starts with tag; 0 if none
RECURSIVE FirstImplFor(_, _, _)
FirstImplFor(body, tag, i) ==
    IF i > Len(body) THEN 0
    ELSE IF body[i].type = "ImplBlock" /\ StartsWith(body[i].targetType, tag) THEN i
    ELSE FirstImplFor(body, tag, i + 1)

OperandNodes == {IntLit(1), StrLit("a"), BoolLit(TRUE), Wildcard}

\* C10: string concatenation. In the analyzer a program leaves behind (it
\* is the same in every state of the run that follows), a `+` with an operand
\* of static type str has type str and adds no diagnostic whatever the other
\* operand is, and any other operator, or `+` without a str operand, adds a
\* diagnostic exactly when the operand types differ and neither is any;
\* `let t: str = "Total: " + 10` is accepted with an empty list and
\* print(t) outputs "Total: 10".
C10_StringConcat ==
    /\ (runPc = 0 /\ AnalysisReturned) =>
          \A l \in OperandNodes, r \in OperandNodes, op \in {"+", "-", "*", "==", "<"} :
              LET res == SA_visitBinaryExpr(BinaryExpr(op, l, r), analyzer)
                  lt == SA_visit(l, analyzer).t
                  rt == SA_visit(r, analyzer).t
                  added == Len(res.A.errors) - Len(analyzer.errors)
              IN  IF op = "+" /\ (lt = "str" \/ rt = "str")
                  THEN res.t = "str" /\ added = 0
                  ELSE added = (IF lt # rt /\ lt # "any" /\ rt # "any" THEN 1 ELSE 0)
    /\ (AnalysisOver /\ PickedIs(<<"concatDecl", "printT">>)) => Clean
    /\ (RunOver /\ PickedIs(<<"concatDecl", "printT">>)) =>
          interp.status = "ok" /\ interp.output = <<"Total: 10">>
    /\ (AnalysisReturned /\ Len(Picked) > 0 /\ Picked[1] = Stmt.plusMismatch) =>
          analyzer.errors[1] = "Binary operator '+' cannot be applied to types int and bool"
    /\ (AnalysisReturned /\ Len(Picked) > 0 /\ Picked[1] = Stmt.minusMismatch) =>
          analyzer.errors[1] = "Binary operator '-' cannot be applied to types str and int"

\* the concatenation program has been accepted and has printed its line
C10_Witness ==
    /\ Clean
    /\ RunOver
    /\ PickedIs(<<"concatDecl", "printT">>)
    /\ interp.output = <<"Total: 10">>

(***************************************************************************)
(* Claims about generic structs                                            *)
(***************************************************************************)
\* the static type visitMemberAccess gives to name.field in the analyzer's
\* present state
FieldType(name, field) == SA_visitMemberAccess(MemberAccess(Identifier(name), field), analyzer).t

\* some diagnostic of the list starts with the given text
HasDiagnostic(diags, text) == \E i \in 1..Len(diags) : StartsWith(diags[i], text)

\* C11: generic field resolution. With struct Box<T>: v: T, the declaration
\* let bx: Box<str> = Box { v: "x" } is accepted without a diagnostic and
\* bx.v has static type str: a str binding takes it silently, an int binding
\* is told "expects int, got str". The text between the outermost angle
\* brackets is taken: the field v of a Box<Box<str>> has type Box<str>. A
\* field declared int in the generic struct Tagged<T> keeps the type int.
C11_GenericFieldType ==
    AnalysisReturned =>
        /\ (~InMain /\ Len(Picked) > 0 /\ Picked[1] = Stmt.boxDecl) =>
              FieldType("bx", "v") = "str"
        /\ (~InMain /\ Len(Picked) > 0 /\ Picked[1] = Stmt.tagDecl) =>
              FieldType("g", "v") = "str" /\ FieldType("g", "n") = "int"
        /\ PickedIs(<<"boxDecl">>) => analyzer.errors = <<>>
        /\ PickedIs(<<"boxDecl", "boxField">>) => analyzer.errors = <<>>
        /\ PickedIs(<<"boxDecl", "boxFieldInt">>) =>
              analyzer.errors = <<"Type mismatch: Variable 'k' expects int, got str">>
        /\ PickedIs(<<"boxDecl", "nestField">>) =>
              ~HasDiagnostic(analyzer.errors, "Type mismatch")
        /\ PickedIs(<<"tagDecl", "tagField">>) => analyzer.errors = <<>>

\* bx.v has been bound to a str variable without a diagnostic
C11_Witness ==
    AnalysisReturned /\ PickedIs(<<"boxDecl", "boxField">>) /\ analyzer.errors = <<>>

(***************************************************************************)
(* Claims about string literals and layout                                 *)
(***************************************************************************)
\* the number of double quotes in s; no source of the model has a quote in
\* a comment, so the quotes pair up into literals from the left and an odd
\* count leaves the last literal without its closing quote
RECURSIVE QuoteCount(_)
QuoteCount(s) ==
    IF Len(s) = 0 THEN 0
    ELSE QuoteCount(SubSeq(s, 2, Len(s))) + (IF CharAt(s, 0) = "\"" THEN 1 ELSE 0)

\* C12: a source whose last string literal has no closing quote makes the
\* lexer abort: tokenize() does not return for it, and the tokens never hold
\* a STRING token for the unterminated literal (there are at most as many
\* STRING tokens as pairs of quotes).
C12_UnterminatedStringAborts ==
    QuoteCount(source) % 2 = 1 =>
        /\ lexState # "done"
        /\ 2 * CountType(tokens, "STRING") <= QuoteCount(source)

\* the results of up to n successive calls of nextToken() from L, stopping
\* after a lexical error
RECURSIVE TokensFrom(_, _)
TokensFrom(L, n) ==
    IF n = 0 THEN <<>>
    ELSE LET r == nextToken(L)
         IN  IF r.kind = "error" THEN <<r>> ELSE <<r>> \o TokensFrom(r.L, n - 1)

\* the token types of a sequence of nextToken() results
TypesOf(rs) == [i \in 1..Len(rs) |-> IF rs[i].kind = "error" THEN "error" ELSE rs[i].token.type]

IsLayout(type) == type \in {"NEWLINE", "INDENT", "DEDENT"}

\* n times the type t
Repeat(t, n) == [i \in 1..n |-> t]

\* the lexer stands on a newline, with nothing queued
AtNewline == lexState = "running" /\ tokenQueue = <<>> /\ peek(LexerObj) = "\n"

\* the indentation of the line after that newline, and the lexer after it
NextIndent == ScanWhile(advance(LexerObj), "indent")

\* the line after the newline has a first token
NextLineNonBlank == peek(NextIndent.L) \notin {"\n", "#", NUL}

PlacesOf(toks, type) == {i \in 1..Len(toks) : toks[i].type = type}

\* the struct literal every source of JoinSources holds
TheLiteral == StructInit("P", <<FieldInit("x", IntLit(1)), FieldInit("y", Identifier("b"))>>)

\* C14: implicit line joining. A newline met at bracket depth greater than 0
\* yields no NEWLINE, INDENT or DEDENT and leaves the indent stack as it is,
\* whatever the indentation of the line that follows: the next token is the
\* next token of the text, and no layout token ever lies between the braces.
\* So the literal P { x: 1, y: b } spread over lines, with or without a
\* trailing comma, alone or as the initializer of a let, parses as one
\* statement holding the one StructInit with its two fields.
C14_ImplicitLineJoining ==
    /\ (AtNewline /\ parenLevel > 0) =>
          LET r == nextToken(LexerObj)
          IN  /\ r.kind = "token"
              /\ ~IsLayout(r.token.type)
              /\ r.token.type # "EOF"
              /\ r.L.indentStack = indentStack
    /\ \A i \in 1..Len(tokens) :
          IsLayout(tokens[i].type) =>
              \/ \A j \in PlacesOf(tokens, "LBRACE") : i < j
              \/ \E j \in PlacesOf(tokens, "RBRACE") : j < i
    /\ (lexState = "done" /\ parseState # "idle"
          /\ (StartsWith(source, "P {") \/ StartsWith(source, "let p"))) =>
          /\ parseState = "done"
          /\ Len(ast.body) = 1
          /\ IF StartsWith(source, "let p")
             THEN ast.body[1] = VarDecl("p", "", FALSE, TheLiteral)
             ELSE ast.body[1] = ExpressionStatement(TheLiteral)

\* a literal whose fields stand on lines of their own, indented by 2 and by
\* 1, with a trailing comma, has been parsed
C14_Witness ==
    /\ source = "P {\n  x: 1,\n y: b,\n}"
    /\ parseState = "done"
    /\ ast.body = <<ExpressionStatement(TheLiteral)>>

(***************************************************************************)
(* Claims about the builtin alert                                          *)
(***************************************************************************)
\* C15: in a program the analyzer accepts, the call alert("x") ends without an
\* error; it is forwarded to the host's alert when the host has one, and
\* otherwise sends exactly the line "[ALERT] x" to the output; with or without
\* an extern declaration of alert
C15_AlertBuiltin ==
    (RunOver /\ Clean /\ PickedIs(<<"alertCall">>)) =>
        /\ interp.status = "ok"
        /\ IF interp.host = "browser"
           THEN interp.hostCalls = <<<<"alert", <<VStr("x")>>>>>> /\ interp.output = <<>>
           ELSE interp.hostCalls = <<>> /\ interp.output = <<"[ALERT] x">>

\* the same, for the programs that declare alert extern
C15_WithExtern == HasExtern => C15_AlertBuiltin

\* alert("x") has run in an accepted program without an extern declaration
C15_NoExternRun == RunOver /\ Clean /\ PickedIs(<<"alertCall">>) /\ ~HasExtern

(***************************************************************************)
(* Claims about the host                                                   *)
(***************************************************************************)
\* C16: whenever handleRun constructs an Interpreter and runs it, the AST it
\* runs is the one parsed from the editor's current text, and the analysis of
\* that text reports nothing: a text with diagnostics or without a parse, or
\* the AST of an earlier text, is never executed
C16_RunGated ==
    [][(HandleRun /\ RunAllowed) =>
           (runAnalysis(code).errors = <<>> /\ runAnalysis(code).ast = ast)]_vars

\* every run is a run of the current text once the pending analysis is done
C16_RunGatedAfterAnalysis ==
    [][(HandleRun /\ RunAllowed /\ ~timer) =>
           (runAnalysis(code).errors = <<>> /\ runAnalysis(code).ast = ast)]_vars

\* a run has played a memory event of a program into the memory view
C16_RunPlayed == scopes # <<>> /\ ~timer /\ runAnalysis(code).ast = ast

(***************************************************************************)
(* Claims about primitives                                                 *)
(***************************************************************************)
\* the statements that use or read bindings of primitive type only
PrimGroup ==
    {"primInit", "primAssign", "primArg", "primField", "primMatch", "primRead", "primBlock"}

PrimStmts == {Stmt[name] : name \in PrimGroup}

\* the bindings of primitive type those statements use
PrimNames == {"start", "c", "w", "v", "k"}

\* C17: in every analyzer state no binding of type int, str or bool has its
\* moved flag set, and a program that uses such bindings as var-decl
\* initializer, assignment right-hand side, function argument, struct-literal
\* field value or match subject and reads them afterwards gets no
\* "Use of moved value" and no "already moved" diagnostic for them
C17_PrimitivesNeverMove ==
    /\ \A s \in 1..Len(analyzer.scopes) :
          \A i \in 1..Len(analyzer.scopes[s].symbols) :
              analyzer.scopes[s].symbols[i][2].type \in {"int", "str", "bool"}
                  => ~analyzer.scopes[s].symbols[i][2].moved
    /\ (InCatalog /\ \A i \in 1..Len(Picked) : Picked[i] \in PrimStmts) =>
          \A i \in 1..Len(analyzer.errors) : \A name \in PrimNames :
              /\ analyzer.errors[i] # "Use of moved value '" \o name \o "'"
              /\ analyzer.errors[i] # "Value '" \o name \o "' already moved"

\* a str and a bool binding were used as initializers and read, then the int
\* binding start was read, and the analysis is over
C17_Witness ==
    /\ PickedIs(<<"primBlock", "primRead">>)
    /\ Clean
    /\ \E s \in 1..Len(analyzer.scopes) :
          /\ ObjHas(analyzer.scopes[s].symbols, "w2")
          /\ ~ObjGet(analyzer.scopes[s].symbols, "w").moved

(***************************************************************************)
(* Claims about the order of execution                                     *)
(***************************************************************************)
\* the statements of a program that are not function definitions
RECURSIVE TopLevel(_)
TopLevel(body) ==
    IF Len(body) = 0 THEN <<>>
    ELSE (IF Head(body).type = "FunctionDef" THEN <<>> ELSE <<Head(body)>>)
         \o TopLevel(Tail(body))

\* the statements of main, none without a main
RECURSIVE MainBody(_)
MainBody(body) ==
    IF Len(body) = 0 THEN <<>>
    ELSE IF Head(body).type = "FunctionDef" /\ Head(body).name = "main"
    THEN Head(body).body.statements
    ELSE MainBody(Tail(body))

\* the lines the statements of the order programs print, in their order
RECURSIVE LinesOf(_)
LinesOf(stmts) ==
    IF Len(stmts) = 0 THEN <<>>
    ELSE (CASE Head(stmts) = Stmt.sayOne -> <<"one">>
            [] Head(stmts) = Stmt.callLate -> <<"late">>
            [] Head(stmts) = Stmt.sayAfter -> <<"after">>
            [] Head(stmts) = Stmt.sayMain -> <<"main">>
            [] OTHER -> <<>>)
         \o LinesOf(Tail(stmts))

\* the names they declare, in their order
RECURSIVE DeclsOf(_)
DeclsOf(stmts) ==
    IF Len(stmts) = 0 THEN <<>>
    ELSE (IF Head(stmts).type = "VarDecl" THEN <<Head(stmts).name>> ELSE <<>>)
         \o DeclsOf(Tail(stmts))

\* the names of the DECLARE events of a trace
RECURSIVE Declared(_)
Declared(evs) ==
    IF Len(evs) = 0 THEN <<>>
    ELSE (IF Head(evs).type = "DECLARE" THEN <<Head(evs).name>> ELSE <<>>)
         \o Declared(Tail(evs))

IsPrefix(s, t) == Len(s) <= Len(t) /\ SubSeq(t, 1, Len(s)) = s

\* C18: run() registers the functions first, so late() is callable before its
\* definition; it executes the top-level statements in source order, those
\* after the definition of main included, and then calls main once: until
\* main is called the lines and events are those of top-level statements in
\* their order and complete when it is called, and at the end of the run they
\* are followed by those of main, once
C18_ExecutionOrder ==
    ast \in OrderPrograms =>
        LET top == TopLevel(ast.body)
            main == MainBody(ast.body)
        IN  /\ interp.status = "ok"
            /\ runPc <= Len(ast.body) + 1 =>
                  /\ IsPrefix(interp.output, LinesOf(top))
                  /\ IsPrefix(Declared(interp.events), DeclsOf(top))
            /\ runPc = Len(ast.body) + 1 =>
                  /\ interp.output = LinesOf(top)
                  /\ Declared(interp.events) = DeclsOf(top)
            /\ runPc = Len(ast.body) + 2 =>
                  /\ interp.output = LinesOf(top) \o LinesOf(main)
                  /\ Declared(interp.events) = DeclsOf(top) \o DeclsOf(main)

\* a run is over in which late() was called before its definition, a
\* statement after the definition of main ran, and main ran last
C18_Witness ==
    /\ ast \in OrderPrograms
    /\ runPc = Len(ast.body) + 2
    /\ interp.output = <<"late", "after", "main">>
    /\ Declared(interp.events) = <<"dx", "dy">>

(***************************************************************************)
(* Claims about the environment of a call                                  *)
(***************************************************************************)
\* the calls made from a block that declares its own start
FromShadow == {"callShadow", "methodShadow"}

\* the run of the scope program with statements ps is over
ScopeRunOver(ps, inMain) ==
    RunOver /\ ast.body[1] = ScopePrelude[1] /\ ast = ScopeProgram(ps, inMain)

\* C19 as stated: the environment of a function or method call has the
\* caller's current environment as parent, so start, which the callee neither
\* takes nor declares, resolves through the caller's chain: to the caller's
\* own start (100) in a call from the block that declares one, to the global
\* start (10) otherwise
C19_CallerChain ==
    \A ps \in Picks(ScopeGroup, MaxStmts), inMain \in BOOLEAN :
        ScopeRunOver(ps, inMain) =>
            /\ interp.status = "ok"
            /\ interp.output = [i \in 1..Len(ps) |->
                                   IF ps[i] \in FromShadow THEN "100" ELSE "10"]
            /\ (Len(ps) = 1 /\ ps[1] \in FromShadow /\ ~inMain) => interp.envs[3].parent = 2

\* C19, amended: the environment of a function or method call has the global
\* environment as parent, whatever environment is current in the caller, so
\* start resolves to the global start (10) in every call, also in a call from
\* a block that declares its own start
C19_GlobalParent ==
    \A ps \in Picks(ScopeGroup, MaxStmts), inMain \in BOOLEAN :
        ScopeRunOver(ps, inMain) =>
            /\ interp.status = "ok"
            /\ interp.output = [i \in 1..Len(ps) |-> "10"]
            /\ (Len(ps) = 1 /\ ps[1] \in FromShadow /\ ~inMain) =>
                   interp.envs[3].parent = interp.globalEnv

\* readStart() was called from a block whose own start is 100, with the
\* block's environment (2) current, and got the global start
C19_Witness ==
    /\ ScopeRunOver(<<"callShadow">>, FALSE)
    /\ Clean
    /\ ObjGet(interp.envs[2].values, "start") = VInt(100)
    /\ interp.envs[3].parent = 1
    /\ interp.output = <<"10">>

(***************************************************************************)
(* Claims about assignment and declaration at run time                     *)
(***************************************************************************)
\* what an event tells: type, scope and, for a binding, name and value
EventFacts(ev) ==
    IF ev.type \in {"DECLARE", "UPDATE"} THEN <<ev.type, ev.scopeId, ev.name, ev.value>>
    ELSE <<ev.type, ev.scopeId>>

\* what the statement does according to C20, in a run that has declared the
\* global n (environment 1) and whose next fresh environment is b: the events,
\* the new value of the global n (0 for no change), the bindings the block's
\* environment ends with, and the error
Effect(name, b) ==
    CASE name = "setN" ->
            [events |-> << <<"UPDATE", 1, "n", VInt(2)>> >>, n |-> 2, block |-> <<>>,
             blocks |-> 0, err |-> ""]
      [] name = "shadowSet" ->
            [events |-> << <<"ENTER_SCOPE", b>>, <<"DECLARE", b, "n", VInt(10)>>,
                           <<"UPDATE", b, "n", VInt(11)>>, <<"EXIT_SCOPE", b>> >>,
             n |-> 0, block |-> << <<"n", VInt(11)>> >>, blocks |-> 1, err |-> ""]
      [] name = "blockSet" ->
            [events |-> << <<"ENTER_SCOPE", b>>, <<"UPDATE", 1, "n", VInt(3)>>,
                           <<"EXIT_SCOPE", b>> >>,
             n |-> 3, block |-> <<>>, blocks |-> 1, err |-> ""]
      [] name = "redeclare" ->
            [events |-> << <<"ENTER_SCOPE", b>>, <<"DECLARE", b, "n", VInt(5)>>,
                           <<"EXIT_SCOPE", b>> >>,
             n |-> 0, block |-> << <<"n", VInt(5)>> >>, blocks |-> 1, err |-> ""]
      [] name = "setMissing" ->
            [events |-> <<>>, n |-> 0, block |-> <<>>, blocks |-> 0,
             err |-> "Runtime Error: Undefined variable zz"]
      [] name = "setProto" ->
            [events |-> <<>>, n |-> 0, block |-> <<>>, blocks |-> 0,
             err |-> "Runtime Error: Undefined variable toString"]

\* the run of statements ps from i on, according to C20: acc holds the events
\* so far, the global n, the environments after the first, and the error
RECURSIVE Expected(_, _, _)
Expected(ps, i, acc) ==
    IF i > Len(ps) \/ acc.err # "" THEN acc
    ELSE LET e == Effect(ps[i], Len(acc.envs) + 2)
         IN  Expected(ps, i + 1,
                      [events |-> acc.events \o e.events,
                       n |-> IF e.n = 0 THEN acc.n ELSE e.n,
                       envs |-> IF e.blocks = 1 THEN Append(acc.envs, e.block) ELSE acc.envs,
                       err |-> e.err])

\* the whole run: at top level, or in main, whose call makes environment 2
\* and whose body is the block of environment 3
ExpectedRun(ps, inMain) ==
    LET start == [events |-> << <<"DECLARE", 1, "n", VInt(1)>> >>
                             \o (IF inMain THEN << <<"ENTER_SCOPE", 3>> >> ELSE <<>>),
                  n |-> 1, envs |-> IF inMain THEN << <<>>, <<>> >> ELSE <<>>, err |-> ""]
        end == Expected(ps, 1, start)
    IN  IF inMain THEN [end EXCEPT !.events = @ \o << <<"EXIT_SCOPE", 3>> >>] ELSE end

\* the run of the assignment program with statements ps did what C20 says
AsExpected(ps, inMain) ==
    LET e == ExpectedRun(ps, inMain)
    IN  /\ [i \in 1..Len(interp.events) |-> EventFacts(interp.events[i])] = e.events
        /\ interp.envs[1].values = << <<"n", VInt(e.n)>> >>
        /\ [i \in 1..Len(interp.envs) - 1 |-> interp.envs[i + 1].values] = e.envs
        /\ interp.err = e.err
        /\ interp.status = IF e.err = "" THEN "ok" ELSE "error"

C20_OwnNames ==
    \A ps \in Picks(AssignGroup \ {"setProto"}, MaxStmts), inMain \in BOOLEAN :
        (RunOver /\ ast = AssignProgram(ps, inMain)) => AsExpected(ps, inMain)

\* a block has assigned to its own n and the next block to the global n
C20_OwnNamesRun ==
    /\ ast = AssignProgram(<<"shadowSet", "blockSet">>, FALSE)
    /\ RunOver
    /\ interp.envs[1].values = << <<"n", VInt(3)>> >>
    /\ interp.envs[2].values = << <<"n", VInt(11)>> >>

(***************************************************************************)
(* Claims about return                                                     *)
(***************************************************************************)
\* the statement a wrapping statement of a returning body holds first
Unwrap(node) ==
    CASE node.type = "IfStmt" -> node.thenBranch.statements[1]
      [] node.type \in {"WhileStmt", "ForStmt"} -> node.body.statements[1]
      [] node.type = "MatchStmt" -> node.cases[1].body.statements[1]
      [] OTHER -> node.statements[1]

\* how many statements are nested around the return of a returning body
RECURSIVE DepthOf(_)
DepthOf(node) == IF node.type = "ReturnStmt" THEN 0 ELSE 1 + DepthOf(Unwrap(node))

\* the return statement of a returning body
RECURSIVE ReturnOf(_)
ReturnOf(node) == IF node.type = "ReturnStmt" THEN node ELSE ReturnOf(Unwrap(node))

\* the program is one of those about return
IsReturnProgram == ast.body[1] = ReturnPrelude(<<>>, Null)[1]

\* its statements outside the definitions, and the call among them
ReturnStmts ==
    IF Last(ast.body).type = "FunctionDef" THEN Last(ast.body).body.statements
    ELSE SubSeq(ast.body, Len(ast.body) - 3, Len(ast.body))

TheCall == ReturnStmts[3].initializer

\* the nested statement of the body of inner, and the value it returns
TheNest == ast.body[4].body.statements[2]

ThePayload ==
    IF ReturnOf(TheNest).value = Null THEN VNull ELSE LiteralValue(ReturnOf(TheNest).value)

\* the values the DECLARE events of the trace give to name, in order
RECURSIVE DeclaredValues(_, _)
DeclaredValues(evs, name) ==
    IF Len(evs) = 0 THEN <<>>
    ELSE IF Last(evs).type = "DECLARE" /\ Last(evs).name = name
    THEN Append(DeclaredValues(Front(evs), name), Last(evs).value)
    ELSE DeclaredValues(Front(evs), name)

\* the blocks a run of the program enters: those around the return, the body
\* of a function or method (a closure's body is not visited as a block), the
\* body of outer, and the body of main
BlocksEntered ==
    DepthOf(TheNest)
    + (IF TheCall = ReturnCalls["closure"] THEN 0 ELSE 1)
    + (IF TheCall = ReturnCalls["outer"] THEN 1 ELSE 0)
    + (IF Last(ast.body).type = "FunctionDef" THEN 1 ELSE 0)

\* C21: return unwinding. When a return executes in the body of a function,
\* a method or a closure, inside any nesting of if, while, for, match and
\* blocks, no later statement of that body runs, every block entered since
\* the call emits its EXIT_SCOPE, the innermost call catches the return (its
\* caller goes on with its next statement), and the call evaluates to the
\* payload, null for a bare return.
C21_ReturnUnwinds ==
    (RunOver /\ IsReturnProgram) =>
        /\ interp.status = "ok"
        /\ interp.output = IF TheCall = ReturnCalls["outer"]
                           THEN <<"in", "back", "done">> ELSE <<"in", "done">>
        /\ DeclaredValues(interp.events, "v")
              = IF TheCall = ReturnCalls["outer"] THEN <<VStr("outer")>> ELSE <<ThePayload>>
        /\ TheCall = ReturnCalls["outer"] => DeclaredValues(interp.events, "w") = <<ThePayload>>
        /\ EventCount("ENTER_SCOPE") = BlocksEntered
        /\ EventCount("EXIT_SCOPE") = BlocksEntered
        /\ ScopeStack(interp.events).ok
        /\ ScopeStack(interp.events).open = <<>>

\* a bare return two statements deep in a method body has come back as null
C21_Witness ==
    /\ RunOver
    /\ IsReturnProgram
    /\ TheCall = ReturnCalls["method"]
    /\ DepthOf(TheNest) = 2
    /\ ThePayload = VNull
    /\ DeclaredValues(interp.events, "v") = <<VNull>>
    /\ interp.output = <<"in", "done">>

(***************************************************************************)
(* Claims about the patterns of match arms                                 *)
(***************************************************************************)
\* the pattern node the arm pattern with this text stands for
PatternNode(text) ==
    CASE text = "_" -> Wildcard
      [] text = "Some(x)" -> [type |-> "EnumPattern", variant |-> "Some", innerBind |-> "x"]
      [] text = "Ok(x)" -> [type |-> "EnumPattern", variant |-> "Ok", innerBind |-> "x"]
      [] text = "Err(x)" -> [type |-> "EnumPattern", variant |-> "Err", innerBind |-> "x"]
      [] text = "None" -> [type |-> "EnumPattern", variant |-> "None"]
      [] text = "State::Idle" -> EnumPattern("State", "Idle", <<>>)
      [] text = "State::Stopped { reason }" -> EnumPattern("State", "Stopped", <<"reason">>)
      [] OTHER -> EnumPattern("State", "Pair", <<"a", "b">>)

\* the patterns written Name::Variant
QualifiedTexts == {"State::Idle", "State::Stopped { reason }", "State::Pair { a, b }"}

\* parse() returned a program that is one match statement whose arms carry
\* the pattern nodes of the texts
ParsedPatterns(texts) ==
    /\ parseState = "done"
    /\ Len(ast.body) = 1
    /\ ast.body[1].type = "MatchStmt"
    /\ ast.body[1].subject = Identifier("s")
    /\ Len(ast.body[1].cases) = Len(texts)
    /\ \A i \in 1..Len(texts) : ast.body[1].cases[i].pattern = PatternNode(texts[i])

\* parse() is over, with a program or with a parse error
ParseOver == parseState \in {"done", "error"}

\* C22: match-arm pattern parsing. Inside `match expr:` the parser accepts
\* `_` (Wildcard), `Some(x)`, `Ok(x)`, `Err(x)` (EnumPattern with that variant
\* and innerBind x), `None` (EnumPattern None) and `Name::Variant` with an
\* optional `{ f, ... }` (EnumPattern with enumName and the field names), and
\* none of them causes a parse error.
C22_PatternsParse ==
    ParseOver => \A m \in MatchCatalog : m.src = source => ParsedPatterns(m.patterns)

\* what holds: a match whose arms are all written Name::Variant parses to the
\* EnumPatterns with enumName, variant and field names, and every match with
\* an arm written `_`, Some(x), Ok(x), Err(x) or None is a parse error
C22_QualifiedOnly ==
    ParseOver =>
        \A m \in MatchCatalog :
            m.src = source =>
                IF \A i \in 1..Len(m.patterns) : m.patterns[i] \in QualifiedTexts
                THEN ParsedPatterns(m.patterns)
                ELSE parseState = "error"

\* a match with two Name::Variant arms has been parsed
C22_QualifiedParsed ==
    /\ source = MatchSource(<<"State::Stopped { reason }", "State::Idle">>, " print(x)")
    /\ ParsedPatterns(<<"State::Stopped { reason }", "State::Idle">>)

(***************************************************************************)
(* Claims about the bindings of match patterns                             *)
(***************************************************************************)
PatternGroup == {"declReason", "matchS", "matchOther", "printReason", "setReason"}

PatternStmts == {Stmt[name] : name \in PatternGroup}

\* the program is made of the statements about the pattern binding reason
IsPatternProgram == InCatalog /\ \A i \in 1..Len(Picked) : Picked[i] \in PatternStmts

\* whether the statement is among those picked
HasPicked(name) == \E i \in 1..Len(Picked) : Picked[i] = Stmt[name]

\* C23: pattern bindings are scoped to their arm. The names a match pattern
\* introduces are defined only in the scope of that arm's body: in the scope
\* (and the environment) the match statement stands in, the name is bound
\* only if the program declared it there, and then with its declared type,
\* mutability and moved flag (and its own value); the other arms and the
\* statements after the match see no pattern binding.
C23_ArmScoped ==
    IsPatternProgram =>
        /\ \A i \in 1..Len(analyzer.scopes) :
              (ObjHas(analyzer.scopes[i].symbols, "s")
                  /\ ObjHas(analyzer.scopes[i].symbols, "reason")) =>
                    /\ HasPicked("declReason")
                    /\ ObjGet(analyzer.scopes[i].symbols, "reason") = SymbolInfo("int", TRUE)
        /\ \A e \in 1..Len(interp.envs) :
              (ObjHas(interp.envs[e].values, "s")
                  /\ ObjHas(interp.envs[e].values, "reason")) =>
                    /\ HasPicked("declReason")
                    /\ ObjGet(interp.envs[e].values, "reason").k = "int"
        /\ AnalysisReturned /\ ~HasPicked("declReason") /\ HasPicked("printReason") =>
              HasDiagnostic(analyzer.errors, "Undefined variable 'reason'")
        /\ RunOver /\ ~HasPicked("declReason") /\ HasPicked("printReason") =>
              /\ interp.status = "error"
              /\ interp.err = "Runtime Error: Undefined variable reason"

\* what the code does: the pattern's field is defined in the scope and in
\* the environment the match statement stands in. After `match s` with the
\* arm State::Stopped { reason }, a later print(reason) has no diagnostic
\* and runs without error, and so does the arm that follows; a declared
\* `let mut reason: int` has become an immutable binding of type any
C23_LeaksToEnclosing ==
    (IsPatternProgram /\ AnalysisReturned) =>
        /\ PickedIs(<<"matchS", "printReason">>) =>
              /\ ~HasDiagnostic(analyzer.errors, "Undefined variable 'reason'")
              /\ RunOver => interp.status = "ok" /\ Len(interp.output) = 2
        /\ PickedIs(<<"matchOther">>) => analyzer.errors = <<>>
        /\ PickedIs(<<"declReason", "matchS">>) =>
              \E i \in 1..Len(analyzer.scopes) :
                  /\ ObjHas(analyzer.scopes[i].symbols, "s")
                  /\ ObjGet(analyzer.scopes[i].symbols, "reason") = SymbolInfo("any", FALSE)

\* the run of match s followed by print(reason) is over
C23_LeakRun == IsPatternProgram /\ PickedIs(<<"matchS", "printReason">>) /\ RunOver /\ interp.status = "ok"

(***************************************************************************)
(* Claims about uses that do not consume                                   *)
(***************************************************************************)
\* method calls on p, reads of its field and prints of it
BorrowingStmts == {Stmt[name] : name \in {"descCall", "readX", "printP", "usesP"}}

\* the program is such uses of p, with `let b = p` nowhere or last
IsBorrowingProgram ==
    /\ InCatalog
    /\ \A i \in 1..Len(Picked) - 1 : Picked[i] \in BorrowingStmts
    /\ Len(Picked) > 0 => Last(Picked) \in BorrowingStmts \cup {Stmt["moveP"]}

\* the symbol of p, in the scope Setup declared it in
SymbolP ==
    LET i == CHOOSE i \in 1..Len(analyzer.scopes) : ObjHas(analyzer.scopes[i].symbols, "p")
    IN  ObjGet(analyzer.scopes[i].symbols, "p")

\* the scope Setup declares p in exists
HasSymbolP == \E i \in 1..Len(analyzer.scopes) : ObjHas(analyzer.scopes[i].symbols, "p")

\* C24: non-consuming uses leave the moved flag unchanged. The analysis of a
\* method call p.m(...) with receiver p, of a field read p.x and of print(p)
\* never sets the moved flag of p: after any number of such uses in sequence
\* there is no move diagnostic, p is not moved, and a later `let b = p` is
\* accepted as the first move (p is then moved, still without diagnostic).
C24_NonConsumingUses ==
    (IsBorrowingProgram /\ HasSymbolP) =>
        /\ ~HasDiagnostic(analyzer.errors, "Use of moved value 'p'")
        /\ ~HasDiagnostic(analyzer.errors, "Value 'p' already moved")
        /\ SymbolP.moved => /\ Len(Picked) > 0
                            /\ Last(Picked) = Stmt["moveP"]
                            /\ AnalysisReturned
        /\ (AnalysisReturned /\ Len(Picked) > 0 /\ Last(Picked) = Stmt["moveP"]) =>
              SymbolP.moved

\* six uses of p in a block and then `let b = p` have been analysed
C24_Witness ==
    /\ InCatalog
    /\ PickedIs(<<"usesP", "moveP">>)
    /\ AnalysisReturned
    /\ SymbolP.moved
    /\ analyzer.errors = <<>>

(***************************************************************************)
(* Claims about the mutability check                                       *)
(***************************************************************************)
IsMutProgram == ast.body[1] = MutPrelude[1]

\* the assignments of the program, after the bindings
MutPicked ==
    IF Last(ast.body).type = "FunctionDef" /\ Last(ast.body).name = "main"
    THEN Last(ast.body).body.statements
    ELSE SubSeq(ast.body, Len(MutPrelude) + 1, Len(ast.body))

MutHas(name) == \E i \in 1..Len(MutPicked) : MutPicked[i] = Stmt[name]

\* `let w = v` stands before `v = V { .. }`, or twice
MovedThenSet ==
    \E i, j \in 1..Len(MutPicked) :
        i < j /\ MutPicked[i] = Stmt["moveV"] /\ MutPicked[j] \in {Stmt["setV"], Stmt["moveV"]}

\* the diagnostics of the assignments to this and to a parameter
BinderDiagnostics ==
    { "Cannot assign to immutable variable 'this'",
      "Cannot assign to immutable variable 'par'" }

\* the diagnostics of k = 2, m = "s", zz = 1
BadDiagnostics ==
    { "Cannot assign to immutable variable 'k'",
      "Type mismatch: Cannot assign str to int 'm'",
      "Undefined variable 'zz'" }

\* the diagnostics of i = 3 in a for loop over i and of z = 1 in |z: int|
ItemDiagnostics ==
    { "Cannot assign to immutable variable 'i'",
      "Cannot assign to immutable variable 'z'" }

\* the diagnostics of a use of v after `let w = v`
MovedDiagnostics ==
    { "Cannot assign to moved variable 'v'",
      "Use of moved value 'v'",
      "Value 'v' already moved" }

DiagnosticSet == {analyzer.errors[i] : i \in 1..Len(analyzer.errors)}

\* what the global scope records for a name
GlobalSymbol(name) == ObjGet(analyzer.scopes[1].symbols, name)

\* every assignment that is to be reported is, no other is, and the
\* bindings keep type and mutability
MutChecked ==
    /\ BinderDiagnostics \subseteq DiagnosticSet
    /\ MutHas("setBad") => BadDiagnostics \subseteq DiagnosticSet
    /\ MutHas("binders") => ItemDiagnostics \subseteq DiagnosticSet
    /\ (\E i, j \in 1..Len(MutPicked) :
            i < j /\ MutPicked[i] = Stmt["moveV"] /\ MutPicked[j] = Stmt["setV"])
          => "Cannot assign to moved variable 'v'" \in DiagnosticSet
    /\ DiagnosticSet \subseteq
          BinderDiagnostics
          \cup (IF MutHas("setBad") THEN BadDiagnostics ELSE {})
          \cup (IF MutHas("binders") THEN ItemDiagnostics ELSE {})
          \cup (IF MovedThenSet THEN MovedDiagnostics ELSE {})
    /\ GlobalSymbol("m").type = "int" /\ GlobalSymbol("m").mutable
    /\ GlobalSymbol("k").type = "int" /\ ~GlobalSymbol("k").mutable
    /\ GlobalSymbol("v").type = "V" /\ GlobalSymbol("v").mutable
    /\ GlobalSymbol("valueOf").type = "int" /\ GlobalSymbol("valueOf").mutable

C25_OwnNames ==
    (AnalysisReturned /\ IsMutProgram /\ ~MutHas("blockProto")) => MutChecked

\* m = 2 and, after `let w = v`, v = V { n: 2 } have been analysed
C25_OwnNamesRun ==
    /\ AnalysisReturned
    /\ IsMutProgram
    /\ MutPicked = StmtsOf(<<"moveV", "setV">>)
    /\ "Cannot assign to moved variable 'v'" \in DiagnosticSet

\* the assignment valueOf = 2 in a block, to the global let mut valueOf: int,
\* is reported as an assignment to an immutable variable
C25_InheritedName ==
    /\ AnalysisReturned
    /\ IsMutProgram
    /\ MutPicked = StmtsOf(<<"blockProto">>)
    /\ "Cannot assign to immutable variable 'valueOf'" \in DiagnosticSet

(***************************************************************************)
(* Claims about the first move                                             *)
(***************************************************************************)
\* the statements that consume a
MovingGroup == {"moveA", "assignA", "takeA", "matchA", "structField", "boxA"}

MovingStmts == {Stmt[name] : name \in MovingGroup}

\* the program's first statement after Setup consumes a, and has been
\* analysed alone: as the whole program, or as the first of a top-level run
FirstMoveAnalysed ==
    /\ InCatalog
    /\ Len(Picked) > 0
    /\ Picked[1] \in MovingStmts
    /\ ~analyzer.threw
    /\ \/ Len(Picked) = 1 /\ anPc = Len(ast.body) + 1
       \/ ~InMain /\ anPc = Len(ast.body) - Len(Picked) + 2

\* the symbol of a, in the scope Setup declared it in
SymbolA ==
    LET i == CHOOSE i \in 1..Len(analyzer.scopes) : ObjHas(analyzer.scopes[i].symbols, "a")
    IN  ObjGet(analyzer.scopes[i].symbols, "a")

\* the first move set the flag and added no move diagnostic
SilentMove ==
    /\ SymbolA.moved
    /\ ~HasDiagnostic(analyzer.errors, "Use of moved value 'a'")
    /\ ~HasDiagnostic(analyzer.errors, "Value 'a' already moved")

\* C28: a first move is silent. Consuming a non-moved non-primitive binding
\* once in any moving position (var-decl initializer, assignment right-hand
\* side, function argument, match subject, struct-literal field value,
\* including the field of type T of a generic struct) sets its moved flag
\* and adds no "Use of moved value" or "already moved" diagnostic.
C28_FirstMoveSilent == FirstMoveAnalysed => SilentMove

\* the same for every position but the generic struct's field of type T
C28_PlainPositions ==
    (FirstMoveAnalysed /\ Picked[1] # Stmt["boxA"]) => SilentMove

\* t = a has been analysed as the first move of a
C28_PlainMove ==
    /\ FirstMoveAnalysed
    /\ Picked[1] = Stmt["assignA"]
    /\ SymbolA.moved
    /\ analyzer.errors = <<>>

\* Box { v: a } as the first move of a is reported as a use of a moved value
C28_GenericField ==
    /\ FirstMoveAnalysed
    /\ PickedIs(<<"boxA">>)
    /\ analyzer.errors = <<"Use of moved value 'a'">>

(***************************************************************************)
(* Claims about the kinds of the square brackets                           *)
(***************************************************************************)
\* the tokens tokenize() has returned whose text is the given one
TokensOf(text) ==
    {i \in 1..Len(tokens) : tokens[i].type # "NUMBER" /\ tokens[i].value = text}

\* C26: every token the lexer returns has a kind of the closed token-kind
\* set, and the kinds of `[` and `]` are distinct from each other and from
\* every other kind; so `xs[i]` parses to an IndexExpr of xs and Identifier i
\* and `[a, b]` to an ArrayLiteral of the two Identifiers, without error.
C26_BracketKinds ==
    /\ \A i \in 1..Len(tokens) : tokens[i].type \in TokenType
    /\ \A i \in TokensOf("["), j \in 1..Len(tokens) :
           tokens[j].type = tokens[i].type => j \in TokensOf("[")
    /\ \A i \in TokensOf("]"), j \in 1..Len(tokens) :
           tokens[j].type = tokens[i].type => j \in TokensOf("]")
    /\ (parseState # "idle" /\ source = "xs[i]") =>
           /\ parseState = "done"
           /\ ast = Program(<<ExpressionStatement(
                                IndexExpr(Identifier("xs"), Identifier("i")))>>)
    /\ (parseState # "idle" /\ source = "[a, b]") =>
           /\ parseState = "done"
           /\ ast = Program(<<ExpressionStatement(
                                ArrayLiteral(<<Identifier("a"), Identifier("b")>>))>>)

\* both brackets have the kind undefined, which is no member of the set.
\* After an identifier the suffix loop takes the closing bracket for an
\* opening one, so both sources end in a parse error; with literals as
\* index and elements they parse
C26_OneUndefinedKind ==
    /\ \A i \in TokensOf("[") \cup TokensOf("]") : tokens[i].type = UndefinedKind
    /\ UndefinedKind \notin TokenType
    /\ (parseState # "idle" /\ source \in {"xs[i]", "[a, b]"}) => parseState = "error"
    /\ (parseState # "idle" /\ source = "xs[0]") =>
           /\ parseState = "done"
           /\ ast = Program(<<ExpressionStatement(IndexExpr(Identifier("xs"), IntLit(0)))>>)
    /\ (parseState # "idle" /\ source = "[1, 2]") =>
           /\ parseState = "done"
           /\ ast = Program(<<ExpressionStatement(ArrayLiteral(<<IntLit(1), IntLit(2)>>))>>)

\* the parse of `xs[i]` has ended in an error
C26_IndexFails ==
    /\ source = "xs[i]"
    /\ parseState = "error"
    /\ \E i \in TokensOf("["), j \in TokensOf("]") : tokens[i].type = tokens[j].type

(***************************************************************************)
(* Claims about static and dynamic dispatch                                *)
(***************************************************************************)
\* the calls of m() and the static type of their receiver
DispatchGroup == {"callM", "callPM", "callInt"}

ReceiverType == [callM |-> "P2<str>", callPM |-> "P<int>", callInt |-> "P2<int>"]

\* the text the method m returns that the analyzer resolves for the type
StaticText(objType) ==
    SA_findMethod(analyzer.impls, objType, "m", 1)[1].body.statements[1].value.str

\* the program is calls of m() only, analysed without a diagnostic and run
DispatchRun ==
    /\ RunOver
    /\ InCatalog
    /\ Len(Picked) > 0
    /\ \A i \in 1..Len(Picked) : \E name \in DispatchGroup : Picked[i] = Stmt[name]
    /\ AnalysisReturned
    /\ analyzer.errors = <<>>

NameOf(stmt) == CHOOSE name \in DispatchGroup : stmt = Stmt[name]

\* C27: static and dynamic dispatch agree. In a program with zero
\* diagnostics the method body the interpreter executes for r.m() is the
\* body of the impl entry the analyzer resolved by exact match on the
\* receiver's static type: with one method name implemented for P2<int> and
\* P2<str>, or for P and P2, each receiver runs the impl of its own type.
C27_DispatchAgrees ==
    DispatchRun =>
        /\ interp.status = "ok"
        /\ interp.output = [i \in 1..Len(Picked) |-> StaticText(ReceiverType[NameOf(Picked[i])])]

\* the interpreter takes the first impl, trait by trait, whose target type
\* starts with the instance's struct name: every one of the three calls runs
\* the method of impl A for P2<str>, which is the analyzer's choice for the
\* P2<str> receiver only
C27_PrefixDispatch ==
    DispatchRun =>
        /\ interp.status = "ok"
        /\ interp.output = [i \in 1..Len(Picked) |-> "A-str"]
        /\ StaticText("P2<str>") = "A-str"
        /\ StaticText("P2<int>") = "B-int"
        /\ StaticText("P<int>") = "B-p"

\* p.m() on the P<int> receiver has run the method of the impl for P2<str>
C27_WrongImpl ==
    /\ DispatchRun
    /\ PickedIs(<<"callPM", "callInt">>)
    /\ interp.output = <<"A-str", "A-str">>

(***************************************************************************)
(* Claims about the bracket-depth counter                                  *)
(***************************************************************************)
\* whether token i is a bracket of the given texts
IsBracket(i, texts) ==
    tokens[i].type \notin {"NUMBER", "STRING"} /\ tokens[i].value \in texts

\* opening brackets minus the closing brackets that had an opener, over the
\* first n tokens returned
RECURSIVE TrueDepth(_)
TrueDepth(n) ==
    IF n = 0 THEN 0
    ELSE LET d == TrueDepth(n - 1)
         IN  IF IsBracket(n, {"(", "[", "{"}) THEN d + 1
             ELSE IF IsBracket(n, {")", "]", "}"}) /\ d > 0 THEN d - 1
             ELSE d

\* opening brackets minus closing brackets over the first n tokens returned
RECURSIVE RawDepth(_)
RawDepth(n) ==
    IF n = 0 THEN 0
    ELSE LET d == RawDepth(n - 1)
         IN  IF IsBracket(n, {"(", "[", "{"}) THEN d + 1
             ELSE IF IsBracket(n, {")", "]", "}"}) THEN d - 1
             ELSE d

NewlineTokens == {i \in 1..Len(tokens) : tokens[i].type = "NEWLINE"}

\* C29: the lexer's bracket-depth counter is never negative and equals the
\* number of opening brackets consumed minus the number of closing brackets
\* consumed that had a matching opener; an unmatched closing bracket does not
\* change whether later newlines produce layout tokens: a newline inside a
\* later bracket pair produces none.
C29_DepthCounter ==
    /\ parenLevel >= 0
    /\ parenLevel = TrueDepth(Len(tokens))
    /\ \A i \in NewlineTokens : TrueDepth(i - 1) = 0

\* the counter is the plain difference of opening and closing brackets
\* consumed, negative after an unmatched closing bracket, and a newline
\* produces layout tokens wherever that difference is not positive
C29_RawCounter ==
    /\ parenLevel = RawDepth(Len(tokens))
    /\ \A i \in NewlineTokens : RawDepth(i - 1) <= 0

\* after `)` the newline inside the pair opened by `(` has produced NEWLINE
\* and INDENT
C29_LayoutInsidePair ==
    /\ source = ")\n(\n a"
    /\ lexState = "done"
    /\ parenLevel = 0
    /\ \E i \in NewlineTokens : /\ i < Len(tokens)
                                /\ tokens[i + 1].type = "INDENT"
                                /\ TrueDepth(i - 1) = 1

(***************************************************************************)
(* Claims about the restoration of the environment                         *)
(***************************************************************************)
EnvGroup == {"envProbe", "seeInner", "seeItem", "seeParam"}

EnvStmts == {Stmt[name] : name \in EnvGroup}

\* the name each statement reads after the block, loop or call that bound it
Unseen == [seeInner |-> "inner", seeItem |-> "it", seeParam |-> "u"]

\* the program is made of the four statements, and its run is over
EnvRunOver ==
    /\ RunOver
    /\ InCatalog
    /\ \A i \in 1..Len(Picked) : Picked[i] \in EnvStmts

\* the DECLARE events of the markers m0 .. m5, in the order of the run
RECURSIVE MarkerEvents(_)
MarkerEvents(evs) ==
    IF Len(evs) = 0 THEN <<>>
    ELSE IF Last(evs).type = "DECLARE"
            /\ Last(evs).name \in {"m0", "m1", "m2", "m3", "m4", "m5"}
    THEN Append(MarkerEvents(Front(evs)), Last(evs))
    ELSE MarkerEvents(Front(evs))

\* the first statement that reads a vanished binding, 0 for none
FirstUnseen ==
    IF \E i \in 1..Len(Picked) : Picked[i] # Stmt["envProbe"]
    THEN CHOOSE i \in 1..Len(Picked) :
             /\ Picked[i] # Stmt["envProbe"]
             /\ \A j \in 1..i - 1 : Picked[j] = Stmt["envProbe"]
    ELSE 0

\* every marker after m0 is declared in the environment m0 was declared in,
\* and each probe before the first failing read declared all six
MarkersAligned(ms) ==
    /\ \A i \in 1..Len(ms) :
           IF ms[i].name = "m0" THEN TRUE
           ELSE i > 1 /\ ms[i].scopeId = ms[i - 1].scopeId
    /\ Len(ms) = 6 * (IF FirstUnseen = 0 THEN Len(Picked) ELSE FirstUnseen - 1)

\* C30: environment restoration. After a function, method or closure call
\* returns, and after a Block or a For statement finishes, the current
\* environment is the one that was current before it began: between two
\* top-level statements it is the global environment, a declaration after
\* an inner block, loop or call lands where the declaration before it did,
\* and a binding of the block, the loop iteration or the callee is undefined
\* afterwards. The analyzer's current scope is the global scope once
\* visitProgram has finished.
C30_EnvironmentRestored ==
    /\ interp.status = "ok" => interp.currentEnv = interp.globalEnv
    /\ AnalysisReturned => analyzer.currentScope = 1
    /\ EnvRunOver =>
          /\ MarkersAligned(MarkerEvents(interp.events))
          /\ IF FirstUnseen = 0 THEN interp.status = "ok"
             ELSE /\ interp.status = "error"
                  /\ \E name \in DOMAIN Unseen :
                        /\ Picked[FirstUnseen] = Stmt[name]
                        /\ interp.err = "Runtime Error: Undefined variable " \o Unseen[name]

\* the probe has declared its six markers in one environment, and the read
\* of the loop item after the loop has failed
C30_Witness ==
    /\ EnvRunOver
    /\ PickedIs(<<"envProbe", "seeItem">>)
    /\ Len(MarkerEvents(interp.events)) = 6
    /\ interp.err = "Runtime Error: Undefined variable it"
    /\ analyzer.currentScope = 1

====
